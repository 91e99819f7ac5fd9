---------------------------- MODULE PasswordReset ----------------------------
(***************************************************************************)
(* The forgotten password, auth.service.js, on top of the mail queue.      *)
(* requestPasswordReset deletes the codes of the address, creates a new    *)
(* one, mails it, and deletes the codes again when the mail fails (the row *)
(* of the mail stays in the queue).  resetPasswordWithOtp finds the row of *)
(* a code and then, in one transaction, changes the password and deletes   *)
(* the row by id.  A code and the mail that carries it share an id.        *)
(***************************************************************************)
EXTENDS MailQueue

CONSTANT Addresses

ASSUME AddressesAssumption == Addresses # {} /\ IsFiniteSet(MailRequests)

VARIABLES
  code,     \* per code: its row in password_resets, "gone" when deleted
  owner,    \* per code: the user it is for
  used,     \* per code: how many passwords were set with it
  asker     \* per request: the user whose code it mails

codes == <<code, owner, used>>
resetVars == <<mailVars, codes, asker, mailPc>>

AnyAddress == CHOOSE u \in Addresses : TRUE

ResetTypeOK ==
  /\ MailTypeOK
  /\ code \in [Mails -> {"none", "live", "expired", "gone"}]
  /\ owner \in [Mails -> Addresses]
  /\ used \in [Mails -> Nat]
  /\ asker \in [MailRequests -> Addresses]
  /\ mailPc \in [MailRequests -> {"idle", "send", "mark", "catch", "code", "mail", "undo", "use"}]

ResetInit ==
  /\ MailInit
  /\ code = [m \in Mails |-> "none"]
  /\ owner = [m \in Mails |-> AnyAddress]
  /\ used = [m \in Mails |-> 0]
  /\ asker = [r \in MailRequests |-> AnyAddress]
  /\ mailPc = [r \in MailRequests |-> "idle"]

Unused == {m \in Mails : log[m] = "none" /\ code[m] = "none"}

\* The bound on rows: a row is left for every request that will create one.
RowsLeft == Cardinality({r \in MailRequests : mailPc[r] = "code"}) < Cardinality(Unused)

Stored(m) == code[m] \in {"live", "expired"}

\* deleteMany: the codes of user u are gone.
Without(u) == [m \in Mails |-> IF Stored(m) /\ owner[m] = u THEN "gone" ELSE code[m]]

-----------------------------------------------------------------------------
(* requestPasswordReset *)

BeginReset(r, u) ==
  /\ mailPc[r] = "idle"
  /\ RowsLeft
  /\ code' = Without(u)
  /\ asker' = [asker EXCEPT ![r] = u]
  /\ MailGoes(r, "code")
  /\ UNCHANGED <<mailVars, owner, used>>

CreateCode(r) ==
  LET m == Min(Unused)
  IN  /\ mailPc[r] = "code" /\ Unused # {}
      /\ code' = [code EXCEPT ![m] = "live"]
      /\ owner' = [owner EXCEPT ![m] = asker[r]]
      /\ mailJob' = [mailJob EXCEPT ![r] = m]
      /\ MailGoes(r, "mail")
      /\ UNCHANGED <<config, rows, history, faults, kind, todo, seen, used, asker>>

\* With mail switched off sendMail answers that all is well.
MailCode(r) ==
  /\ mailPc[r] = "mail"
  /\ IF Enabled
     THEN CreateRow(r, mailJob[r], "reset")
     ELSE /\ Forget(r)
          /\ MailGoes(r, "idle")
          /\ UNCHANGED <<config, rows, history, faults>>
  /\ UNCHANGED <<codes, asker>>

\* Mutant: a code whose mail has failed is kept.
UndoNothing(r) ==
  /\ mailPc[r] = "undo"
  /\ MailGoes(r, "idle")
  /\ UNCHANGED <<mailVars, codes, asker>>

\* The mail has failed: the code is deleted, and the failure answered.
Undo(r) ==
  /\ mailPc[r] = "undo"
  /\ code' = Without(asker[r])
  /\ MailGoes(r, "idle")
  /\ UNCHANGED <<mailVars, owner, used, asker>>

-----------------------------------------------------------------------------
(* resetPasswordWithOtp, by somebody who has received the code *)

BeginUse(r, m) ==
  /\ mailPc[r] = "idle"
  /\ code[m] = "live" /\ delivered[m] > 0
  /\ mailJob' = [mailJob EXCEPT ![r] = m]
  /\ MailGoes(r, "use")
  /\ UNCHANGED <<config, rows, history, faults, kind, todo, seen, codes, asker>>

\* Mutant: the row is deleted if it is still there.
FinishUseAnyway(r) ==
  /\ mailPc[r] = "use"
  /\ used' = [used EXCEPT ![mailJob[r]] = @ + 1]
  /\ code' = [code EXCEPT ![mailJob[r]] = "gone"]
  /\ Forget(r)
  /\ MailGoes(r, "idle")
  /\ UNCHANGED <<config, rows, history, faults, owner, asker>>

\* A row that is gone by now cannot be deleted: nothing is changed.
FinishUse(r) ==
  /\ mailPc[r] = "use"
  /\ IF Stored(mailJob[r])
     THEN /\ used' = [used EXCEPT ![mailJob[r]] = @ + 1]
          /\ code' = [code EXCEPT ![mailJob[r]] = "gone"]
     ELSE UNCHANGED <<used, code>>
  /\ Forget(r)
  /\ MailGoes(r, "idle")
  /\ UNCHANGED <<config, rows, history, faults, owner, asker>>

-----------------------------------------------------------------------------
\* Fifteen minutes pass.
Expire(m) ==
  /\ code[m] = "live"
  /\ code' = [code EXCEPT ![m] = "expired"]
  /\ UNCHANGED <<mailVars, mailPc, owner, used, asker>>

Arrive(r) ==
  \/ RowsLeft /\ SendNotice(r, Min(Unused)) /\ UNCHANGED <<codes, asker>>
  \/ \E m \in Mails : BeginUse(r, m)
  \/ \E u \in Addresses : BeginReset(r, u)

Scheduled(r) == RunQueue(r) /\ UNCHANGED <<codes, asker>>

Continue(r) ==
  \/ SendStep(r) /\ UNCHANGED <<codes, asker>>
  \/ CreateCode(r) \/ MailCode(r) \/ Undo(r) \/ FinishUse(r)

Elsewhere ==
  \/ (Crash \/ Tick) /\ UNCHANGED <<codes, asker>>
  \/ \E m \in Mails : Expire(m)

ResetNext == (\E r \in MailRequests : Arrive(r) \/ Scheduled(r) \/ Continue(r)) \/ Elsewhere

ResetSpec == ResetInit /\ [][ResetNext]_resetVars

-----------------------------------------------------------------------------
(* What mail and password resets must keep. *)

VARIABLE mailOverlapped

Overlaps == INSTANCE Overlap WITH Requests <- MailRequests, pc <- mailPc, overlapped <- mailOverlapped

ResetHistoryInit == ResetInit /\ mailOverlapped = FALSE
ResetHistoryNext == ResetNext /\ Overlaps!NoteOverlap
ResetHistorySpec == ResetHistoryInit /\ [][ResetHistoryNext]_<<resetVars, mailOverlapped>>

\* The server runs what it has started, the scheduler fires every two
\* minutes and time passes; nothing says that anybody sends a mail or uses a
\* code.
ResetFairSpec ==
  /\ ResetHistorySpec
  /\ \A r \in MailRequests : WF_resetVars(Continue(r))
  /\ WF_resetVars(\E r \in MailRequests : Scheduled(r))
  /\ WF_resetVars(Tick /\ UNCHANGED <<codes, asker>>)

Undisturbed == faults = 0

\* "DEAD (max attempts reached)" (mail.service.js): however runs of the
\* scheduler overlap and whatever fails, a mail is given up only after as
\* many tries as the configuration allows it.
GivesUpLate ==
  \A m \in Mails : log[m] = "DEAD" => tries[m] = MaxAttempts

\* A row that says SENT stands for a mail the provider has taken.
SentIsDelivered == \A m \in Mails : log[m] = "SENT" => delivered[m] > 0

\* A code changes one password once, also when it is submitted twice at the
\* same time (the delete by id in the transaction of resetPasswordWithOtp).
CodeUsedOnce == \A m \in Mails : used[m] <= 1

\* What holds of mails and codes whatever overlaps and fails.
ResetConsistent == ResetTypeOK /\ GivesUpLate /\ SentIsDelivered /\ CodeUsedOnce

\* "Re-drive PENDING EmailLog rows" (queue.js): where the queue can send, no
\* mail stays PENDING for ever, whatever crashes and overlaps happen.
Settles ==
  \A m \in Mails :
    (log[m] = "PENDING" /\ config = "smtp")
      ~> log[m] \in {"SENT", "DEAD"}

\* A user has one valid code (a new request withdraws the codes before it),
\* and "forgot-password deletes its reset row on failure": a code that can be
\* used has been mailed, as far as mail is switched on and nothing fails; and
\* then no mail goes out twice.
LiveCodesAreMailed ==
  Overlaps!Alone(
    /\ \A m, n \in Mails :
         code[m] = "live" /\ code[n] = "live" /\ owner[m] = owner[n] => m = n
    /\ Undisturbed =>
         /\ \A m \in Mails : delivered[m] <= 1
         /\ Enabled /\ (\A r \in MailRequests : mailPc[r] = "idle") =>
              \A m \in Mails : code[m] = "live" => log[m] = "SENT")
=============================================================================
