---------------------------- MODULE EpochManager ----------------------------
(***************************************************************************)
(* The EpochManager: a global epoch and, per epoch modulo MAX_EPOCHS, the  *)
(* number of transactions reading in it.  All fields are atomics, so each  *)
(* load, fetch_add and fetch_sub is a step of its own.                     *)
(* GetOldestActiveEpoch, which nobody calls, only reads and is left out.   *)
(***************************************************************************)
EXTENDS Integers, FiniteSets

CONSTANTS
  MAX_EPOCHS,  \* length of the ring of counters (1024 in the code)
  MaxEpoch     \* bound on global_epoch

ASSUME EpochAssumption == MAX_EPOCHS \in Nat \ {0} /\ MaxEpoch \in Nat \ {0}

VARIABLES
  global_epoch,  \* global_epoch_
  active_epochs  \* active_epochs_[i].count

epochVars == <<global_epoch, active_epochs>>

EpochSlots == 0 .. MAX_EPOCHS - 1

EpochTypeOK ==
  /\ global_epoch \in 1 .. MaxEpoch
  /\ active_epochs \in [EpochSlots -> Int]

EpochInit ==
  /\ global_epoch = 1
  /\ active_epochs = [s \in EpochSlots |-> 0]

\* The counters' half of EnterEpoch, with the epoch loaded before.
CountEntry(epoch) ==
  active_epochs' = [active_epochs EXCEPT ![epoch % MAX_EPOCHS] = @ + 1]

Mutant_ExitCurrent(epoch) ==
  active_epochs' = [active_epochs EXCEPT ![global_epoch % MAX_EPOCHS] = @ - 1]
ExitEpoch(epoch) ==
  active_epochs' = [active_epochs EXCEPT ![epoch % MAX_EPOCHS] = @ - 1]

AdvanceEpoch ==
  /\ global_epoch < MaxEpoch
  /\ global_epoch' = global_epoch + 1
  /\ UNCHANGED active_epochs

=============================================================================
