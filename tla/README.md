# A TLA+ model of the Recruitment Inbox Agent

The agent reads a recruiting mailbox, turns each email into evidence with a language
model, keeps applications, events and actions in PostgreSQL, writes interviews into an
Outlook calendar, asks a human where it is unsure, and sends a daily brief.  It runs as
Azure Functions: three timers, one queue worker and a web console, all of them stateless
processes that may die, overlap, time out and be delivered the same work twice.  What
keeps them in order is a handful of PostgreSQL rows, their statuses, leases and conditional
updates.  That is what these modules describe, check with TLC and, for the parts where it
matters most, prove with TLAPS.

Paths below are relative to `src/src/recruitment_agent/` unless they start with `src/`.

## The system

| Component | State | Operations | Hard behaviour |
|---|---|---|---|
| Operations (`application/operations.py`, `persistence/operations.py`) | `operation_runs`: status, attempt count, lease | submit, claim, complete, fail, release | leases that lapse, executions that die or outlive their lease, retries over two delivery paths |
| Queue, worker, dispatcher (`operations/azure_queue.py`, `src/function_app.py`, `jobs/operations.py`) | queue messages with a dequeue count | enqueue, deliver, redeliver, dispatch tick, inline execution | duplicated and lost messages, a submitter that dies before its send |
| Email processing (`_process_email`, `persistence/workflow.py`, `graph/runner.py`) | `source_emails.processing_status`, `processing_runs` | claim the email, start, advance, finalize, park, reset, mark failed | two operations for one email, handlers that raise after any step, death between two transactions |
| Pending drain (`_fan_out_pending`) | drain operations, their children, the continuation | submit per slot, batches, reclaim of orphaned reviews, continue | overlapping drains, a batch budget that ends before the mail, a paused switch that fails what is queued |
| Workflow graph (`graph/nodes.py`, `graph/builder.py`, `graph/contracts.py`) | LangGraph thread and its checkpoint, the audited extraction | the nodes from load to finalize, the questions and their answers | each node is its own transaction; a pass that dies is repeated with another extraction; chained and combined questions |
| Reviews (`application/reviews.py`, `persistence/workflow.py`, `persistence/reviews.py`) | `review_items`, the interrupted thread | open, resolve, resume, recover a duplicate | two web hosts, resumes that die, repeated submits |
| Domain processing (`domain/processing.py`, `application/` and `persistence/domain_processing.py`) | applications, events, actions, histories | resolve application, resolve event, plan, persist | what was read is stale when it is written |
| Calendar (`application/calendar_sync.py`, `microsoft/calendar.py`) | `calendar_links`, the user's calendar | plan, create, update, replace | lost answers, deleted events, death before the link is saved |
| Mail synchronization (`application/mail_sync.py`, `persistence/mail.py`) | `mail_sync_state`: cursor, lease; `source_emails` | begin, pages, complete, fail, invalidate, reset | cursors that expire, a lease that lapses, a reset underneath |
| Daily brief (`application/daily_brief.py`, `microsoft/send_mail.py`) | one dispatch row per local day | claim, render, send, mark | a mail that was sent and not acknowledged |
| Runtime control (`persistence/operations.py`, `application/agent_console.py`) | switches, version, recipient | create, fill the recipient, patch | two administrators with one version, a fill without a version |
| Authorization (`microsoft/auth.py`, `persistence/microsoft_auth.py`, `api/auth.py`) | encrypted token cache with a revision, one-time flows, the session | refresh, sign in, connect | concurrent refreshes, an account switch under a synchronization |
| Extraction and validation (`extraction/`), preparation (`email/`), company resolution (`domain/company*.py`, `persistence/companies.py`) | the company directory | validate, adopt a forwarded sender, resolve, upsert a seed | precedence and ambiguity; a catalog that is seeded while emails wait |
| Privacy, secure links | encrypted links | redact, encrypt | none but over characters |
| Web, console, dashboard, observability, configuration, migrations | sessions, settings | requests, rendering | none that the workflow depends on |

Timers and the console submit operations; the worker and the dispatcher execute them; a
`process_email` operation claims an email and runs the graph; the graph stops at a review
and is resumed by a web request; the graph's last nodes write the domain rows and the
calendar; the drain creates operations for pending and orphaned emails; the mail timer
feeds `source_emails`; the brief reads what the others wrote.

What makes each part correct is stated with its module below.  `PROJECT.json` lists the
hazards at their lines, with the properties that watch them.

## Modules

    OperationLease ----------- OperationQueue       the row, and its transport
          |                          \
          |                           OperationLease is its abstract specification
          +-- EmailProcessing         the handler of process_email on the same row
    PendingDrain                      drains, their children, and the mail that waits
    EmailPreparation --- CompanyResolution --- ExtractionValidation --- WorkflowGraph
                                      what an email, a directory and an extraction say,
                                      and one run of one email through the graph
    ReviewWorkflow                    runs, threads and reviews of one email
    DomainProcessing --- CalendarSync applications and events, and Outlook
    MailSync                          one mail folder
    MailboxConnection                 the token cache, sign-in, and whose cursor it is
    RuntimeControl                    the switches and the recipient of the brief
    BriefDelivery <----- DailyBrief   what a day's brief promises, and how

The modules named `MC...` give constants their values for TLC; those named `...Proofs` hold the
theorems.  A definition whose comment starts with `Fault:` is wrong on purpose: put in the
place of the definition after it, it breaks a property, which is how each property is known to
say something about the code.

**OperationLease.** `status`, `attempts` and `lapsed` are the columns of `operation_runs`;
`executions` are the calls of `OperationExecutor.execute` in flight, each with the attempt it
was claimed as.  `ClaimOperation` is the conditional UPDATE (queued, or running with a lapsed
lease); the three ends write the row by its id alone, as the statements do.  A lease lapses
under an execution only as one of the bounded `overruns`.  Time is that one bit: clocks are not
modelled, and skew between hosts is ignored.  *OneExecution*, *RetryBound*, *TerminalIsFinal*
hold until some execution overruns its lease.

**OperationQueue.** Extends the lease with messages, deliveries, the freshness window of 30
seconds and the dispatcher's tick, which re-enqueues what is due and then executes it inline,
one after the other, until its budget is spent.  Identical messages are collapsed into one
(another copy only adds a refused claim); the limit of 100 operations per tick is not
reached by an instance.  The Azure queue is external: a failed or dead delivery comes back
with a higher dequeue count until `MaxDeliveries`.  *LeaseSpec* says every behaviour is one of
OperationLease; *AcceptedWorkSettles* that accepted work ends.

**EmailProcessing.** Extends the lease with the email, the run and the handler's position; one
action per transaction.  What the graph does between its first and last write is left open:
it finishes, is ignored, fails, parks or raises.  `MayPause` and `MayRaise` say whether an
instance has switches and exceptions.  Properties about who works on an email are limited to
emails without overruns and without two claimed operations of which one was disturbed
(`Orderly`; an operation is undisturbed while its first attempt works or has succeeded): beyond
that the code does let two workflows run on one email (`reset_source_email_pending` frees an
email by its id), which is listed as a hazard.  `Contended` counts what has happened to an
operation, not what is visible of it: an attempt that is not yet past its error path already
is one.

**ReviewWorkflow.** One email: its runs, each with a LangGraph thread (saved position), the chain
of review rows per question, and the graph invocations in flight, on the operation worker or on a
web host.  An interrupted node starts again from its beginning when resumed; checkpoints are saved
while the next node already executes; both are LangGraph's, external, and so is that a resume's
value reaches the first node it executes and no later one (`Without`). A decision does not name
the question it answers: `interrupt` hands whatever the resume carries to the question the thread
asks, and `Allowed` is what passes `validate_review_decision` there (`use_override` passes for two
questions about clocks, for instance).  `met` and an invocation's `again` are history: two resumes
of the run were in flight at once; the row was resolved with the decision already when it was
submitted.  Stages between two questions are one step that advances the run and one that routes,
so a checkpoint is at most one of these behind. `MaxRows` stands for the eight successors of
`open_review`.  Every question has something a human may decide (`Allowed[q] # {}`): otherwise the
email would stay.  How a first invocation is retried by its operation is EmailProcessing's
subject.

**DomainProcessing, CalendarSync.** Emails about one company and normalized role.  `status`,
`linked` and `events` are the rows; `at`, `evidence`, `answer` and `plan` what a pass carries from
node to node.  Each node is a step, because each has its own transaction; the second look under
the advisory lock is `PersistUnlinked`, the unlocked read of an already linked application
`ReadLinked` and `WriteLinked`.  Extraction is a choice from `Extracted`, and a repeated pass may
choose differently.  A pass that dies is repeated from START, except when a reviewer had resumed
it: then the decision is submitted again and the graph goes on at the last checkpoint of its
thread (`saved`, the node that was executing or the one before), with the answers and the plan of
that checkpoint.  A plan to persist is then as old as the checkpoint; `overtaken` holds the dead
passes since whose death another email was persisted.  Questions before `resolve_application` are
not told apart; a pass resumed by one of them may start at `resolve_application` or later as
well.  `overlapped`, `asked`, `reread` and `lostUpdate` are history variables: they record that
two emails were worked on at once or an overtaken plan was taken up again, a reviewer asked for a
new row, a repeated pass read its email differently, a status was written over one it was not
computed from.  Properties use them to say exactly under which circumstances the code keeps a
promise.  CalendarSync continues at `persisted`: load the candidate, read the link, ask Graph,
save the link, finish the run, each a step; `finishing` is where a pass may still die after its
link is saved, and be repeated.  What the calendar node reads it reads anew at every repetition.
Graph is external: one event per transaction id as long as that event lives, 404 for an update of
a deleted one.  Two more histories belong to it: `replaced` counts replacements of an Outlook
event that was there, `misled` records that a link passed for current while its Outlook event said
something else.  `misled` looks at the link and at Outlook (`StaleLink`), not at the comparison
the code makes, so that it does not excuse a comparison that is wrong.  Left out: unresolved
companies and timezones, rounds, action items, history rows, other accounts, and events without an
active status (no code deactivates one).

**MailSync.** The folder is the log of its messages in order of arrival, a delta cursor the
number of messages it has passed, `Nil` a full enumeration.  `Malformed` messages are skipped by
the reader.  Pages beyond the budget of a run and failed requests are both `FetchFails`.  A
cursor reset is the operation that finds the switches off, and only later, in a transaction of
its own, drops the cursor.

**DailyBrief, BriefDelivery.** One local day: senders (timer ticks and operations), the dispatch
row, mails the recipient got.  `posts` counts the requests of one `sendMail`, which are
retried only while it is certain that no mail was taken.  BriefDelivery is the promise: at most
one mail, an end that says what is known.  The refinement maps the row and the mail count.

**PendingDrain.** The drain operations the timer submits, the `process_email` operations they
create batch by batch, and the emails those claim.  A drain is a position in `_fan_out_pending`
with its batch, the count of its batches and the continuation it has created; a child is an
operation keyed by the drain and the email.  Listing, each creation and the count are steps, so
drains overlap anywhere.  Operations are claimed, released and closed as OperationLease says,
without overruns.  `MaxFaults` executions raise or die, `MaxPauses` times the switch is turned
off, which *fails* what is admitted meanwhile.  `waited` and `overlapped` are history.  Reclaiming
a batch of orphans is one step, and so are the query for more mail and the creation of the
continuation; the names of closed drains are used again, since only their keys are bounded by the
instance.  `process_email` operations that an administrator submits are left out.

**MailboxConnection.** The token cache with its revision, one-time flows and their callbacks, the
callers that load, refresh and save the cache around a request to Graph, and the account switch
that drops the mail cursor.  A cache is the account it holds, a cursor the account it was
read from, so that mixing two accounts is visible and everything else about tokens is not.
MSAL and Graph are external: a cursor of another account is refused with 410, never continued.
Lapsed leases and deaths of synchronizations are MailSync's subject and left out here.
`connected` and `straddled` are history.

**RuntimeControl.** The row of switches; a user is a request that creates or reads the row, may
go on to fill in the recipient from its settings (a statement of its own, without a version)
and may send one patch, which is checked against a read of its own and then against the
locked row.

**EmailPreparation, CompanyResolution, ExtractionValidation.** Pure operators: which of the
outer and the quoted sender counts and what the prefilter says of an email; the one company
that all exact matches of a directory agree on, and the upsert of a seed; the issues the
validator raises about an extraction and the status they add up to.  Texts are abstracted to
what the rules find in them.

**WorkflowGraph.** One run of one email over these operators, a step per node.  `thread` is the
checkpoint, `audit` the row of `llm_extractions` (the first extraction recorded counts), `request`
the open question, `persisted` the clocks and the company that `persist_domain_changes` writes.  A
pass that dies before the first answer starts again from the beginning with whatever the model
says then; the deaths of resumes are ReviewWorkflow's and DomainProcessing's subject.  The audited
row and the checkpoint of the node that writes it are one step: a repetition passes that node
again and finds the row.  The database shows any open applications and interviews, and the catalog
may be seeded again between any two nodes.  Left out: rounds, action items, link references, and
three questions no state reaches (`datetime_conflict`, whose issue is an error;
`canonical_company_unresolved`, asked for before; `unnormalized_role_ambiguous`, which raises
first).  `sanitize_content` fails an email whose text keeps a `www.` mention or a foreign scheme:
the sanitizer redacts http links only, and the node refuses any mark of a URL.

## Runs

| Run | Instance | Shows |
|---|---|---|
| OperationQueue | 1 operation, 3 attempts, 3 deliveries, 1 death, 1 overrun | OneExecution, RetryBound, TerminalIsFinal, AcceptedWorkSettles, refinement of OperationLease |
| EmailProcessing | 2 operations for 1 email, 2 attempts, 1 death, pauses and raises | EmailExclusive, ProcessingHasAnOwner, SettledEmailStays, CrashedEmailRecovers |
| PendingDrain | 2 emails, 2 names of drains, batches of 1, budget of 1 batch, 1 fault, 1 pause | OneOpenChild, DrainCovers, MailIsTakenUp |
| WorkflowGraph | 5 emails, 108 extractions, 3 companies, 2 seeds, 2 applications, 2 interviews, 1 death | EvidenceIsAudited, PersistedIsSound, DoubtsAreAnswered, MailboxIsNoEmployer, NoQuestionTwice, RunEnds |
| ReviewWorkflow | 2 hosts, 2 decisions, 1 run, 2 questions (one decision passes for both), 2 rows, 3 resumes, each of which may die or raise | AnswersStand, NothingStranded, EndedRunStays |
| CalendarSync | 2 emails, 2 earlier applications, a third email after a deletion, 2 times, every kind of evidence, 3 passes, 1 each of death, lost answer, failure, deletion | OneOpenApplication, OneInterview, DecisionsStand, BoundedDuplicates, CalendarAgrees |
| MailSync | 2 synchronizers, 2 messages (1 malformed), pages of 1, 2 pages, 1 each of death, overrun, refusal, pause | NothingSkipped, LeaseExcludes, MailArrives |
| MailboxConnection | 2 accounts (1 administrator), 1 flow, 2 synchronizers, 2 attempts, 1 refresh | ConnectionStands, CursorOfMailbox, TokenIsUsed, ForeignCursorGoes |
| RuntimeControl | 2 users, 3 switches (2 available), 2 recipients, patches of 1 change, 3 versions | PatchOnSeen |
| DailyBrief | 3 senders, 3 claims, 3 requests | BoundedClaims, AbandonedDispatchCloses, refinement of BriefDelivery |

Two more runs show where the repository promises more than the code keeps; each is a finding
in `PROJECT.json` with the quoted line.  *EmailStrandedByFailedRun* (NoStrandedEmail): a retry
completes an operation without its email.  *AnswersSuffice*: where the email names its zone
but not a usable time, the review asks for `YYYY-MM-DD HH:MM`, takes it, and the run fails,
because nothing binds a clock without an offset to the zone the email named.

Three type invariants are run as well as proved (EmailProcessing, as ETypeOK since it extends
the lease; ReviewWorkflow; CalendarSync, with DomainProcessing's); the others, and the
properties named under Proofs that no run lists (OneWorker, ControlReadable,
RecipientStands, and the three invariants of the brief, which its refinement also implies), are
theorems.

Why the bounds are enough.  Every conflict in this code is between two parties over one row: two
executions, two operations, two synchronizers, two hosts, two emails; a third party only adds a
repetition, and the brief, where a third claim is the last one, has three.  One death, one overrun
and one retry after it are enough to reach each error path and what comes after it; RetryBound
needs three attempts to tell the attempt limit from the delivery limit.  Two times distinguish a
moved interview from a repeated one.  Two earlier applications make the choice ambiguous.  A batch
and a budget of one make every second email a matter of the continuation, and two names of drains
let a drain, its continuation and a drain of the next slot overlap two by two.  Two accounts tell
the old mailbox from the new, and two synchronizers a refresh from the one it races.  In
WorkflowGraph the catalog gives one company the domain of a personal mailbox and has an alias that
becomes ambiguous when it is seeded again; the extractions are every combination of clocks, zone
and confidence, and one of each refusal.  In ReviewWorkflow the first resume may die anywhere, the
second repeat it, and the third answer what is asked then; a decision that passes for both
questions and one that passes for the first only tell a decision that is carried on from one that
interrupts again.  CalendarSync combines several faults (three at most, two if one of them is a
death) only for first invitations processed one at a time (its constraint `MCFaults`); with any
other evidence it has one fault, and of overlapping emails only one dies, while no request is lost
and nothing deleted.  Its `Late` email arrives when the other emails are under way, an Outlook
event was deleted and nothing else went wrong: three emails are what two replacements of one event
take.  The proofs have none of these bounds.

`MaxPasses`, `MaxCrashes`, `MaxOverruns`, `MaxLosses`, `MaxDeletes`, `MaxFaults`, `MaxRefusals`,
`MaxPauses`, `MaxMail`, `MaxRuns`, `MaxQuestions`, `MaxResumes`, `MaxRefreshes`, `MaxChanges`,
`MaxVersion` and the sets `Drains`, `Flows`, `Syncers`, `Users` are bounds of the model;
`MaxAttempts` (5; 3 for a page), `MaxDeliveries` (host.json), `MaxDispatch` (3), `MaxPosts` (3),
`MaxPages`, `MaxRows` (8), `Limit` and `MaxBatches` (50) are limits of the code with smaller
values.  Deadlock is not checked: every instance stops when its bounds are spent, and
a system without work may stop.  Symmetry is used only in runs without liveness.

Fairness.  *OperationQueue*: the dispatch timer fires every minute, lists what is due ordered by
`requested_at` and executes at least the first of it before its budget is looked at, so the
inline execution is strongly fair; the queue trigger is not assumed to deliver anything (the
source says it never did in this deployment).  Executions are not assumed to succeed; they end,
die or overrun.  *EmailProcessing*: a claim in the end, which is what OperationQueue shows, leases
that lapse, handlers that end.  *PendingDrain*: the timer comes every ten minutes and finds the
switch on and mail waiting again and again (strong, for its submissions), what is queued is
executed, a paused switch is turned on again.  *MailSync*: the timer keeps starting synchronizations,
a switch turned off is turned on again, and requests and writes do not fail for ever; without the last
no retry logic could help.  *MailboxConnection*: the same, and neither does MSAL withhold a
token for ever nor Graph the refusal of a cursor that is not the account's: both are offered
again by every later synchronization, hence strong.  *WorkflowGraph*: nodes execute, a dead
operation is delivered again (OperationQueue), and someone answers; *RunEnds* says nothing
about a question nobody reads.  *DailyBrief*: a later hourly tick of the same day.

## Proofs

TLAPS proves every invariant and every action property of the passing runs for all values of
the constants, and both refinements.  Hardly one of them is inductive; each module states, and
names, the invariant that is.

- `OperationProofs`, the modules that share the table of operations and the row of switches.
  - OperationLease: type correctness, *OneExecution*, *RetryBound*, *TerminalIsFinal*.  The
    invariant adds that, until an overrun, every execution is the latest claim of a running row
    and still inside its lease, that a row without an execution has either lapsed or is not
    running, and that attempts are paid for: each claim before the current one either was
    released, which needs an attempt below the limit, or died.
  - OperationQueue: type correctness and *LeaseSpec*, step by step: transport steps leave the
    row alone, deliveries and inline executions are claims, ends of an execution are ends.  The
    safety of the lease carries over (`DeliveryIsSafe`).
  - EmailProcessing: ETypeOK, *EmailExclusive*, *ProcessingHasAnOwner*, *SettledEmailStays*.  It
    is shown to implement the lease as well, so that the lease's invariant may be used.  To it
    the handlers add what an execution's place says of its email (who works has it in PROCESSING,
    who releases has let go of it), and that an email in PROCESSING has an operation with no
    execution that would leave it as it found it.
  - RuntimeControl: type correctness, *ControlReadable*, *PatchOnSeen*, *RecipientStands*.  The
    invariant: a version that was seen says which switches were on, fills included.
- `PendingDrainProofs`: type correctness, *OneOpenChild*, *OneWorker*, *DrainCovers*.  The invariant:
  a batch is in hand only while its operations are created and the budget is not spent; without
  overlap one drain has a batch and no other drain an operation for its emails, which is more
  than one open operation each; and while nothing has failed every attempt is the first and
  who works on an email has it in PROCESSING.  For *DrainCovers* (`CoverInv`): mail that waited
  since a drain began is pending and no other drain's; a batch that is not full holds all of
  it that has no operation of this drain yet; and a budget that is spent shows in the count.
  That a full listing takes the oldest rests on the well-foundedness of the arrival order.
- `WorkflowGraphProofs`: type correctness, *EvidenceIsAudited*, *DoubtsAreAnswered*,
  *PersistedIsSound*, *MailboxIsNoEmployer*, *NoQuestionTwice*.  Every step is first shown to
  be of one of five kinds (it moves on, extracts, asks, settles a question, persists); the
  invariants are then proved kind by kind.  They say: each question is asked by one node and offers what that node
  found; behind the validation every doubt has its answer, because a question for two clocks
  answers for both; between the node that first builds the evidence and the one that writes it
  no question about a clock is asked; and an email from a personal mailbox that names nobody
  has no candidates, so that no answer can choose one.  `OnceInv`, for the questions: what an
  open question would settle is not settled yet, and who was asked for an application or an
  event has chosen one or asked for a new one, which no later node forgets.
- `ReviewWorkflowProofs`: type correctness, *AnswersStand*, *NothingStranded*, *EndedRunStays*.
  Three invariants.  For the answers (`ReplyInv`): only the last row of a chain may be open; while
  no two resumes of a run have met, its thread is saved at the node of its invocation or one
  before, and as long as a row is open it asks that row's question or is on its way to it
  (`PathInv`), so that a decision given to an open row is carried to no other question; and an
  invocation with a decision finds its row open or with that decision (`AnswerInv`).  For the email:
  an invocation is past a question, or on a host, only when its run has a review, until
  then the run has one invocation, and an email in progress has a run that goes on by
  itself or by a human or the drain.  For the ended run: a lone invocation of it is about to
  return or answers a review that is still open.
- `CalendarSyncProofs`, for DomainProcessing and CalendarSync together: type correctness,
  *DecisionsStand*, *OneOpenApplication*, *OneInterview*, *BoundedDuplicates*, *CalendarAgrees*.
  Each node is first given a shape, what it does to the pass of one email and to the rows; the
  invariants are proved shape by shape.  `AskInv`: whoever wants a second application asked
  for it.  `RowsInv`: events are told apart by their id, those of an application by their
  content.  `AloneInv`: without overlaps a plan is as fresh as its pass, so that it creates an
  application or an interview only where there is none; this includes the plan in the checkpoint
  of a dead pass, which may be persisted (again) as long as no other email was (`Where`,
  `Repeatable`).  `KeyedInv` and `CountInv`: Outlook's ids
  are unique per transaction, and apart from the event a pass has written, or else the linked
  one, every live event was left by a death, a failure or a replacement, one each.  `AgreeInv`:
  in calm, links are live, and an event that Outlook does not show at its time is owed by a pass
  that is still to sync it, across its deaths and repetitions.
- `MailSyncProofs`: type correctness, *NothingSkipped*, *LeaseExcludes*.  The invariants: the
  row's cursor, and the position each synchronization follows even after it has outlived its lease,
  have everything readable before them stored; and while nobody has outlived the lease or switched
  the system off, no reset is under way and every synchronization at work holds the lease.
- `MailboxConnectionProofs`: type correctness, *ConnectionStands*, *CursorOfMailbox*, *TokenIsUsed*.  The
  invariant: a snapshot whose revision is still the row's was read from the row as it is, and until
  a synchronization runs through a switch everything it follows or holds is the connected
  account's.  A token call that holds a token has no step that leaves it anywhere but ready.
- `DailyBriefProofs`: type correctness, *AtMostOneMail*, *VerdictIsTrue*, *BoundedClaims*,
  *LastWordOfTheDay*, and *DeliversAsPromised*, the refinement.  The invariant: a call between its
  claim and its mark is alone, because a row is claimed only from "absent" or "failed"; where
  a call is says what became of the day's mail; what may have been taken ends in a row that is
  not claimed again.

The assumptions are the named ASSUMEs of the modules, which TLC evaluates in every run: limits
are natural numbers, the code's retry counts are positive, None is none of the things it stands
beside, catalogs are directories with unique canonical names, the emails of DomainProcessing are
finitely many (applications and Outlook events are counted), every question has a decision that
passes.

What the proofs found.  *EmailExclusive* had been stated for emails without a second operation
that was *visibly* disturbed; the attempt to prove it showed that an operation which has
succeeded on a retry, or is still in its error path, must count as well.  *BoundedDuplicates*
was false for three emails, which a run with two cannot reach: two emails that both waited for an
answer about one missing Outlook event, both answered with a replacement, each create one
(`application/calendar_sync.py:294` does not look whether the event is missing still).  The
property now counts such replacements, and the run has the third email.  *CalendarAgrees* was
false after a PATCH that took effect and whose link was never saved: the link still holds the
fingerprint of the older content, and evidence that repeats it passes for current.  Both are
listed with their hazards.

Only model-checked: liveness, which with ENABLED is out of the prover's reach
(*AcceptedWorkSettles*, *CrashedEmailRecovers*, *AbandonedDispatchCloses*, *MailArrives*,
*ForeignCursorGoes*, *MailIsTakenUp*, *RunEnds*), and the two runs that end in a violation.

## Not kept by the code

Beside the two findings, the models reproduce behaviour that no property demands to be absent;
the hazards name the lines.

- Two decisions on two web hosts can both go on: resumes are coalesced per process, and
  `open_review` gives a row resolved meanwhile a successor nobody was shown.
- A decision names no question.  Submitted again, after its resume died and the thread had saved
  the next question, it is taken as the answer to that one if it passes there
  (`graph/nodes.py:464`, `graph/contracts.py:193`); *AnswersStand* demands the question only of a
  decision given to an open review.
- A resume that died after `plan_state_transition` is repeated at its checkpoint and persists the
  plan it has there (`graph/runner.py:97`).  If another email was persisted meanwhile, an interview
  it made gets a second one beside it although no two passes ran at once; *OneInterview* and the
  properties of the calendar end at such a plan (`Overtaken`).
- An email that waits can be reclaimed between two statements of its resume, and a second run
  starts beside the first (`reclaim_orphaned_needs_review` looks at the email and its reviews only).
- The status of a linked application is read without a lock and may be written over a decision
  that another email has committed since.
- Two overlapping emails about one interview can leave two live Outlook events: their
  transaction ids differ.
- A reader that found no recipient writes the configured one over a recipient that was patched in
  between (`src/docs/05_OPERATIONS.md:126` has it as a bootstrap value only).
- Two replacements of one missing Outlook event, approved in the reviews of two emails, leave two.
- A PATCH whose link is never saved leaves a link that passes for current when older evidence
  is repeated.
- An execution that outlived its lease puts back or closes the row of its successor.

## Not modelled, and what could come next

1. Action items, interview rounds and history rows in DomainProcessing; two runs at once
   in ReviewWorkflow's instance; the confidences, display names and parents of companies.
2. The abstract specification of what applications promise (one per company and role, progress
   that only humans and decisions stop), and DomainProcessing shown to implement it.
3. The text rules of preparation and sanitizing as operators over token sequences: their
   properties are about characters, which the tests cover.

Left out for good: secure links and encryption, HTML rendering, logging, migrations, benchmarks
and infrastructure.  They have no state that the workflow depends on, or their properties are
about text.
