---------------------------- MODULE ActionLedger ----------------------------
(***************************************************************************)
(* What ACTION_MANIFEST.json promises the reader of a packet: a ledger of  *)
(* numbered actions to which whole batches are appended, each number above *)
(* every number handed out before it.  Nothing is said of files, of the    *)
(* process that appends, or of when the numbers are taken from the state   *)
(* file: ActionManifest is shown to implement this module.                 *)
(***************************************************************************)
EXTENDS Integers, Sequences

VARIABLES
  ledger,    \* the sequence numbers of the recorded actions, in order
  high,      \* no number above this one has been handed out
  readable   \* FALSE once the ledger has been torn

ledgerVars == <<ledger, high, readable>>

LedgerInit ==
  /\ ledger = <<>>
  /\ high = 0
  /\ readable = TRUE

\* A command takes a number; a number that is never recorded is a gap.
TakeNumber ==
  /\ readable
  /\ high' = high + 1
  /\ UNCHANGED <<ledger, readable>>

\* `init` on a root whose ledger holds nothing yet starts the numbers again.
StartAgain ==
  /\ readable
  /\ ledger = <<>>
  /\ high' = 0
  /\ UNCHANGED <<ledger, readable>>

\* A command records its whole batch: fresh increasing numbers at most high.
RecordBatch ==
  /\ readable
  /\ Len(ledger') >= Len(ledger)
  /\ \A i \in 1..Len(ledger) : ledger'[i] = ledger[i]
  /\ \A i \in (Len(ledger) + 1)..Len(ledger') :
        /\ ledger'[i] <= high
        /\ \A j \in 1..(i - 1) : ledger'[j] < ledger'[i]
  /\ UNCHANGED <<high, readable>>

\* A crash in the middle of the write: the ledger can no longer be read, and
\* nothing is appended to it from then on.
Tear ==
  /\ readable
  /\ readable' = FALSE
  /\ UNCHANGED <<ledger, high>>

LedgerNext == TakeNumber \/ StartAgain \/ RecordBatch \/ Tear

LedgerSpec == LedgerInit /\ [][LedgerNext]_ledgerVars
=============================================================================
