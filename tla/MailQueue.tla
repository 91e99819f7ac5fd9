------------------------------ MODULE MailQueue ------------------------------
(***************************************************************************)
(* Outbound mail, mail.service.js and mail/queue.js.  Every mail has a row *)
(* in email_logs.  sendMail creates it PENDING and tries at once; the      *)
(* scheduler runs processMailQueue every two minutes over the rows that    *)
(* are due, whether or not its previous run is over.  A mail is handed to  *)
(* the provider (Transmit) before its row says so (MarkSent, MarkFailed):  *)
(* the server may stop in between, and two runs may work on the same row.  *)
(*                                                                         *)
(* Time is counted in units of the initial retry delay: wait[m] is what is *)
(* left of it until nextRetryAt, 0 when the row is due.                    *)
(***************************************************************************)
EXTENDS Integers, FiniteSets, FiniteSetsExt

CONSTANTS
  MaxMails,     \* rows of email_logs
  MailRequests,     \* requests and runs of the scheduler
  MaxAttempts,  \* EMAIL_MAX_ATTEMPTS
  MaxFaults     \* bound on crashes and failing database writes

ASSUME MailAssumption ==
  MaxAttempts \in Nat \ {0} /\ MaxFaults \in Nat /\ MaxMails \in Nat \ {0}

Mails == 1..MaxMails

VARIABLES
  config,     \* the environment: mail switched on, providers configured
  log,        \* status of each row, "none" before it is created
  attempts,   \* its attempts
  wait,       \* ticks until nextRetryAt
  tries,      \* how often it was tried, counted up to MaxAttempts
  delivered,  \* how often the provider took it, counted up to 2
  faults,     \* crashes and failing writes so far
  mailPc,         \* per request: what it does next
  kind,       \* per request: what it sends
  todo,       \* per request: the rows it has still to send
  seen,       \* per request: attempts of those rows when it read them
  mailJob         \* per request: the row it is working on

rows == <<log, attempts, wait>>
history == <<tries, delivered>>
sending == <<kind, todo, seen, mailJob>>
mailVars == <<config, rows, history, faults, sending>>

Kinds == {"notice", "reset", "queue"}
\* Notifications are off, no provider is configured, Resend alone or SMTP is.
Environments == {"off", "none", "resend", "smtp"}
Enabled == config # "off"
AnyMail == 1
Unread == [m \in Mails |-> 0]

MailTypeOK ==
  /\ config \in Environments
  /\ log \in [Mails -> {"none", "PENDING", "SENT", "DEAD"}]
  /\ attempts \in [Mails -> Nat]
  /\ wait \in [Mails -> Nat]
  /\ tries \in [Mails -> 0..MaxAttempts]
  /\ delivered \in [Mails -> 0..2]
  /\ faults \in 0..MaxFaults
  /\ kind \in [MailRequests -> Kinds]
  /\ todo \in [MailRequests -> SUBSET Mails]
  /\ seen \in [MailRequests -> [Mails -> Nat]]
  /\ mailJob \in [MailRequests -> Mails]

MailInit ==
  /\ config \in Environments
  /\ log = [m \in Mails |-> "none"]
  /\ attempts = Unread
  /\ wait = Unread
  /\ tries = Unread
  /\ delivered = Unread
  /\ faults = 0
  /\ kind = [r \in MailRequests |-> "notice"]
  /\ todo = [r \in MailRequests |-> {}]
  /\ seen = [r \in MailRequests |-> Unread]
  /\ mailJob = [r \in MailRequests |-> AnyMail]

\* computeBackoffMs in units of the initial delay: 1, 2, 4, 8, 16, 16, ...
Backoff(n) ==
  CASE n <= 1 -> 1 [] n = 2 -> 2 [] n = 3 -> 4 [] n = 4 -> 8 [] OTHER -> 16

MailGoes(r, step) == mailPc' = [mailPc EXCEPT ![r] = step]

\* The request, or the run of the scheduler, is over.
Forget(r) ==
  /\ kind' = [kind EXCEPT ![r] = "notice"]
  /\ todo' = [todo EXCEPT ![r] = {}]
  /\ seen' = [seen EXCEPT ![r] = Unread]
  /\ mailJob' = [mailJob EXCEPT ![r] = AnyMail]

-----------------------------------------------------------------------------
(* sendMail and processMailQueue *)

\* The row is created; the first attempt comes next.
CreateRow(r, m, k) ==
  /\ log[m] = "none"
  /\ log' = [log EXCEPT ![m] = "PENDING"]
  /\ kind' = [kind EXCEPT ![r] = k]
  /\ todo' = [todo EXCEPT ![r] = {m}]
  /\ MailGoes(r, "send")
  /\ UNCHANGED <<config, attempts, wait, history, faults, seen, mailJob>>

\* A notification of an approval or of low stock.
SendNotice(r, m) ==
  /\ mailPc[r] = "idle"
  /\ Enabled
  /\ CreateRow(r, m, "notice")

\* PENDING, and nextRetryAt is unset or over.
Due(m) == log[m] = "PENDING" /\ attempts[m] < MaxAttempts /\ wait[m] = 0

\* The queue sends by SMTP only.
RunQueue(r) ==
  LET picked == {m \in Mails : Due(m)}
  IN  /\ mailPc[r] = "idle"
      /\ config = "smtp"
      /\ picked # {}
      /\ kind' = [kind EXCEPT ![r] = "queue"]
      /\ todo' = [todo EXCEPT ![r] = picked]
      /\ seen' = [seen EXCEPT ![r] = [m \in Mails |-> IF m \in picked THEN attempts[m] ELSE 0]]
      /\ MailGoes(r, "send")
      /\ UNCHANGED <<config, rows, history, faults, mailJob>>

\* Without any provider the first attempt fails by itself.
Transmit(r) ==
  /\ mailPc[r] = "send"
  /\ \E taken \in BOOLEAN : LET m == Min(todo[r]) IN
       /\ taken => config \in {"resend", "smtp"}
       /\ tries' = [tries EXCEPT ![m] = Min({@ + 1, MaxAttempts})]
       /\ delivered' = [delivered EXCEPT ![m] = IF taken THEN Min({@ + 1, 2}) ELSE @]
       /\ mailJob' = [mailJob EXCEPT ![r] = m]
       /\ MailGoes(r, IF taken THEN "mark" ELSE "catch")
  /\ UNCHANGED <<config, rows, faults, kind, todo, seen>>

\* On to the next row.  A reset whose mail has failed is taken back.
Onwards(r, ok) ==
  IF todo[r] # {mailJob[r]}
  THEN /\ todo' = [todo EXCEPT ![r] = @ \ {mailJob[r]}]
       /\ mailJob' = [mailJob EXCEPT ![r] = AnyMail]
       /\ MailGoes(r, "send")
       /\ UNCHANGED <<kind, seen>>
  ELSE /\ Forget(r)
       /\ MailGoes(r, IF kind[r] = "reset" /\ ~ok THEN "undo" ELSE "idle")

MarkSent(r) ==
  /\ mailPc[r] = "mark"
  /\ log' = [log EXCEPT ![mailJob[r]] = "SENT"]
  /\ attempts' = [attempts EXCEPT ![mailJob[r]] = IF kind[r] = "queue" THEN @ + 1 ELSE 1]
  /\ wait' = [wait EXCEPT ![mailJob[r]] = 0]
  /\ Onwards(r, TRUE)
  /\ UNCHANGED <<config, history, faults>>

\* Mutant: a failure of the queue is not counted.
MarkFailedUncounted(r) ==
  LET m == mailJob[r]
      n == IF kind[r] = "queue" THEN seen[r][m] ELSE 1
  IN  /\ mailPc[r] = "catch"
      /\ log' = [log EXCEPT ![m] = IF n < MaxAttempts THEN "PENDING" ELSE "DEAD"]
      /\ attempts' = [attempts EXCEPT ![m] = n]
      /\ wait' = [wait EXCEPT ![m] = IF n < MaxAttempts THEN Backoff(n) ELSE 0]
      /\ Onwards(r, FALSE)
      /\ UNCHANGED <<config, history, faults>>

\* The count goes on from the one that was read.
MarkFailed(r) ==
  LET m == mailJob[r]
      n == seen[r][m] + 1
  IN  /\ mailPc[r] = "catch"
      /\ log' = [log EXCEPT ![m] = IF n < MaxAttempts THEN "PENDING" ELSE "DEAD"]
      /\ attempts' = [attempts EXCEPT ![m] = n]
      /\ wait' = [wait EXCEPT ![m] = IF n < MaxAttempts THEN Backoff(n) ELSE 0]
      /\ Onwards(r, FALSE)
      /\ UNCHANGED <<config, history, faults>>

-----------------------------------------------------------------------------
(* Faults and time *)

Fault == faults < MaxFaults /\ faults' = faults + 1

\* The row of a mail that was sent cannot be written: to the handler this is
\* a failure of the mail.
SentNotWritten(r) ==
  /\ mailPc[r] = "mark"
  /\ Fault
  /\ MailGoes(r, "catch")
  /\ UNCHANGED <<config, rows, history, sending>>

\* Nor can the failure: the handler throws, and what is left of the batch is
\* left to a later run.
FailureNotWritten(r) ==
  /\ mailPc[r] = "catch"
  /\ Fault
  /\ Forget(r)
  /\ MailGoes(r, IF kind[r] = "reset" THEN "undo" ELSE "idle")
  /\ UNCHANGED <<config, rows, history>>

\* The server stops and is started again.
Crash ==
  /\ \E r \in MailRequests : mailPc[r] # "idle"
  /\ Fault
  /\ mailPc' = [r \in MailRequests |-> "idle"]
  /\ kind' = [r \in MailRequests |-> "notice"]
  /\ todo' = [r \in MailRequests |-> {}]
  /\ seen' = [r \in MailRequests |-> Unread]
  /\ mailJob' = [r \in MailRequests |-> AnyMail]
  /\ UNCHANGED <<config, rows, history>>

Tick ==
  /\ \E m \in Mails : wait[m] > 0
  /\ wait' = [m \in Mails |-> Max({0, wait[m] - 1})]
  /\ UNCHANGED <<config, log, attempts, history, faults, mailPc, sending>>

-----------------------------------------------------------------------------
SendStep(r) ==
  \/ Transmit(r) \/ MarkSent(r) \/ MarkFailed(r)
  \/ SentNotWritten(r) \/ FailureNotWritten(r)
=============================================================================
