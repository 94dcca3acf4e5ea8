----------------------------- MODULE LogLedger -----------------------------
(***************************************************************************)
(* What the log collector promises about the table of job runs (the Log    *)
(* entity), whatever the passes, the crashes and the lost connections:     *)
(* a row is opened once, its error text only grows, it is closed only once *)
(* the run has ended, and the status of a closed row is never taken back.  *)
(* LogCollector implements this specification.                             *)
(***************************************************************************)
EXTENDS Naturals

CONSTANTS Runs,        \* one execution of a job script, keyed (jobEntityId, timestamp_start)
          MaxStderr    \* bound: chunks of error output of one run

VARIABLES ended,       \* runs whose script has finished
          stderr,      \* chunks a run has written on its error output
          row          \* the row of a run: status 0 is "no row"

ledgerVars == <<ended, stderr, row>>

LedgerRow == [status : 0..3, error : 0..MaxStderr]

LedgerInit == /\ ended = {}
              /\ stderr = [r \in Runs |-> 0]
              /\ row = [r \in Runs |-> [status |-> 0, error |-> 0]]

Prints(r) == /\ r \notin ended
             /\ stderr[r] < MaxStderr
             /\ stderr' = [stderr EXCEPT ![r] = @ + 1]
             /\ UNCHANGED <<ended, row>>

Finishes(r) == /\ r \notin ended
               /\ ended' = ended \union {r}
               /\ UNCHANGED <<stderr, row>>

\* 1 = in progress, with what had been read of the error output.
Observes(r) == \E e \in row[r].error .. stderr[r] :
                 /\ row[r].status <= 1
                 /\ row' = [row EXCEPT ![r] = [status |-> 1, error |-> e]]
                 /\ UNCHANGED <<ended, stderr>>

\* 2 = finish success: no error text was ever found for the run.
Succeeds(r) == /\ r \in ended
               /\ row[r].status <= 2 /\ row[r].error = 0
               /\ row' = [row EXCEPT ![r] = [status |-> 2, error |-> 0]]
               /\ UNCHANGED <<ended, stderr>>

\* 3 = finish with error: the row holds the whole error output.
Fails(r) == /\ r \in ended
            /\ stderr[r] > 0
            /\ row' = [row EXCEPT ![r] = [status |-> 3, error |-> stderr[r]]]
            /\ UNCHANGED <<ended, stderr>>

LedgerNext == \E r \in Runs :
                Prints(r) \/ Finishes(r) \/ Observes(r) \/ Succeeds(r) \/ Fails(r)

LedgerSpec == LedgerInit /\ [][LedgerNext]_ledgerVars

=============================================================================
