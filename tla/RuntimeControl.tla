--------------------------- MODULE RuntimeControl ---------------------------
(***************************************************************************)
(* The row of switches and the recipient of the daily brief: created by    *)
(* whoever reads it first, its missing recipient filled from the settings  *)
(* by whoever reads it next, and patched by administrators against the     *)
(* version their page showed.                                              *)
(*                                                                         *)
(* A user is a request that reads the row (a page, a timer, an execution)  *)
(* and may go on to send one patch.  Creation and reading are one          *)
(* transaction; the statement that fills the recipient comes later in it   *)
(* and looks at nothing again; the patch checks a read of its own first,   *)
(* then the locked row.                                                    *)
(***************************************************************************)
EXTENDS Naturals, FiniteSets

CONSTANTS
    Users,          \* concurrent requests
    Switches,       \* "workflow", "calendar", "brief" and those that stand alone
    Available,      \* switches the deployment can turn on (RuntimeCapabilities)
    Recipients,     \* addresses
    None,           \* no row, no address, no patch
    MaxChanges,     \* bound: what one patch names
    MaxVersion      \* bound: versions of the row

ASSUME ControlAssumption ==
    /\ {"workflow", "calendar", "brief"} \subseteq Switches
    /\ None \notin Recipients
    /\ MaxVersion \in Nat \ {0} /\ MaxChanges \in Nat

VARIABLES
    settings,   \* the environment RuntimeControlDefaults is taken from
    row,        \* runtime_controls
    user        \* each request: what it has read and the patch it sends

cvars == <<settings, row, user>>

Row == [on : SUBSET Switches, recipient : Recipients \cup {None}, version : 1 .. MaxVersion]

ASSUME NoneIsNoRow == None \notin Row

Defaults == [on : SUBSET Switches, recipient : Recipients \cup {None}]

\* What a patch turns on and off, and the recipient it sets.
Patches ==
    {p \in [on : SUBSET Switches, off : SUBSET Switches, recipient : Recipients \cup {None}] :
        /\ p.on \cap p.off = {}
        /\ p.on \cup p.off = {} => p.recipient # None
        /\ Cardinality(p.on \cup p.off) + (IF p.recipient = None THEN 0 ELSE 1) <= MaxChanges}

\* A filling user has read a row without a recipient and has one to write.
User == [at : {"idle", "filling", "shown", "refilling", "storing"},
         shown : Row \cup {None}, read : Row \cup {None}, patch : Patches \cup {None}]

Idle == [at |-> "idle", shown |-> None, read |-> None, patch |-> None]

\* RuntimeControl raises on anything else, and every job that reads it stops.
Sound(control) == "calendar" \in control.on => "workflow" \in control.on

\* The first row: calendar writes count only with workflow processing, where the
\* settings are read (runtime_control_defaults) and where the row is inserted.
Created ==
    [on |-> IF "workflow" \in settings.on THEN settings.on ELSE settings.on \ {"calendar"},
     recipient |-> settings.recipient, version |-> 1]

\* The table came with a migration that knew no recipients, or it is empty.
CInit ==
    /\ settings \in Defaults
    /\ row \in {None} \cup
          {r \in [on : SUBSET Switches, recipient : {None}, version : {1}] : Sound(r)}
    /\ user = [u \in Users |-> Idle]

-----------------------------------------------------------------------------
(* Reading.                                                                 *)

Existing == IF row = None THEN Created ELSE row

\* The recipient is missing and the settings have one.
Fills(r) == r.recipient = None /\ settings.recipient # None

\* ensure_control up to the fill.
ReadControl(u, at, shown, patch) ==
    /\ row' = Existing
    /\ user' = [user EXCEPT ![u] = [at |-> at, shown |-> shown, read |-> Existing, patch |-> patch]]
    /\ UNCHANGED settings

\* A page is shown, a timer reads its switch.
ShowControl(u) ==
    /\ user[u].at = "idle"
    /\ ReadControl(u, IF Fills(Existing) THEN "filling" ELSE "shown", Existing, None)

\* A patch is sent from the page; the service reads the row again to check it.
SubmitPatch(u) ==
    /\ user[u].at = "shown"
    /\ \E p \in Patches :
          ReadControl(u, IF Fills(Existing) THEN "refilling" ELSE "storing", user[u].shown, p)

Filled(control) == [control EXCEPT !.recipient = settings.recipient]

\* The fill, of the row and of the snapshot ensure_control returns.
FillRecipient(u) ==
    /\ user[u].at \in {"filling", "refilling"}
    /\ row' = Filled(row)
    /\ user' = [user EXCEPT ![u] =
          [at |-> IF @.at = "filling" THEN "shown" ELSE "storing",
           shown |-> IF @.at = "filling" THEN Filled(@.shown) ELSE @.shown,
           read |-> Filled(@.read), patch |-> @.patch]]
    /\ UNCHANGED settings

\* The request ends: a page that is closed, a timer that has read its switch.
Leave(u) ==
    /\ user[u].at = "shown"
    /\ user' = [user EXCEPT ![u] = Idle]
    /\ UNCHANGED <<settings, row>>

-----------------------------------------------------------------------------
(* Patching.                                                                *)

Patched(r, p) ==
    [on |-> (r.on \cup p.on) \ p.off,
     recipient |-> IF p.recipient = None THEN r.recipient ELSE p.recipient,
     version |-> r.version + 1]

\* The checks of the service, on the row it has read.
Permitted(r, p) ==
    /\ Sound(Patched(r, p))
    /\ p.on \cap {"workflow", "calendar", "brief"} \subseteq Available
    /\ "brief" \in p.on => Patched(r, p).recipient # None

\* Fault: the version is taken from the read of the service, not from the page.
CurrentAsChecked(u) == row.version = user[u].read.version

\* The locked row has the version the page showed.
Current(u) == row.version = user[u].shown.version

\* The patch is stored in one transaction.  Bound: MaxVersion.
StorePatch(u) ==
    /\ user[u].at = "storing"
    /\ Permitted(user[u].read, user[u].patch)
    /\ Current(u) /\ Sound(Patched(row, user[u].patch))
    /\ row.version < MaxVersion
    /\ row' = Patched(row, user[u].patch)
    /\ user' = [user EXCEPT ![u] = Idle]
    /\ UNCHANGED settings

\* OperationConflictError: nothing is stored.
RefusePatch(u) ==
    /\ user[u].at = "storing"
    /\ \/ ~Permitted(user[u].read, user[u].patch)
       \/ ~Current(u)
       \/ ~Sound(Patched(row, user[u].patch))
       \/ row.version = MaxVersion
    /\ user' = [user EXCEPT ![u] = Idle]
    /\ UNCHANGED <<settings, row>>

-----------------------------------------------------------------------------

UserStep(u) ==
    \/ ShowControl(u) \/ FillRecipient(u) \/ Leave(u)
    \/ SubmitPatch(u) \/ StorePatch(u) \/ RefusePatch(u)

CNext == \E u \in Users : UserStep(u)

CSpec == CInit /\ [][CNext]_cvars

-----------------------------------------------------------------------------
(* Properties.                                                              *)

\* The values of the row and of what each request remembers.
CTypeOK ==
    /\ settings \in Defaults
    /\ row \in Row \cup {None}
    /\ user \in [Users -> User]

\* Calendar writes are on only with workflow processing, in the row and in every
\* snapshot: RuntimeControl refuses anything else, and no job would start any more.
ControlReadable ==
    /\ row # None => Sound(row)
    /\ \A u \in Users : user[u].shown # None => Sound(user[u].shown)

\* The row has been patched by this step, by this request.
Stores(u) == user[u].at = "storing" /\ user'[u].at = "idle" /\ row' # row

\* A patch that is stored gives the switches its administrator saw with the changes it
\* names, whatever others have stored while the page was open or between the check of
\* the service and the lock (expected_version).
PatchOnSeen ==
    [][\A u \in Users :
          Stores(u) => row'.on = (user[u].shown.on \cup user[u].patch.on) \ user[u].patch.off]_cvars

\* A recipient stands until a patch names another, except that a request which found
\* none may still write the one of the settings over it.
RecipientStands ==
    [][(row # None /\ row.recipient # None /\ row'.recipient # row.recipient)
          => \E u \in Users : \/ Stores(u) /\ user[u].patch.recipient # None
                              \/ user[u].at \in {"filling", "refilling"}
                                 /\ user[u].read.recipient = None]_cvars
=============================================================================
