----------------------------- MODULE BootClaims -----------------------------
(* What is checked of the bootloader and the program that loads it. *)
EXTENDS BootLoad

TypeOK ==
    /\ canState \in CanStates /\ bootState \in BootStates
    /\ mode \in {"boot", "app", "halted"}
    /\ autoRun \in BOOLEAN /\ privileged \in BOOLEAN
    /\ validations \in 0 .. 1
    /\ mishaps \in 0 .. MaxMishaps
    /\ transfer.loop \in Nat /\ transfer.sector \in Nat
    /\ transfer.position \in -1 .. SectorLoops
    /\ transfer.received \in 0 .. TableWords
    /\ store.magic \in BOOLEAN /\ store.available \in BOOLEAN

\* What runs is a whole application, and one application is replaced only by
\* way of having none: a sector, a record and a vector table that belong to
\* different applications are never taken for one.
Startable == IF App = {} THEN NoImage ELSE CHOOSE i \in App : TRUE

Slot == INSTANCE AppSlot WITH
    None <- NoImage,
    app <- Startable,
    running <- mode = "app"

ImplementsAppSlot == Slot!SlotSpec

\* While an application is loaded, the sectors acknowledged so far are in
\* flash as they were received: the CRC that the next one is chained to is
\* that of the contents of flash, whatever was lost, sent again or refused.
AcknowledgedIsInFlash ==
    mode = "boot" /\ bootState = "LOAD" =>
        transfer.onBoard = SubSeq(flash, 1, Len(transfer.onBoard))

\* The bootloader's own vector table is in force or in the backup, however
\* often applications are loaded one over the other, unless a write of the
\* program information failed or power failed.
OwnTableKept ==
    mishaps = 0 => \/ store.table = TableOf(Own)
                   \/ store.magic /\ store.backup = TableOf(Own)

\* Supervisor calls are served, also while the application whose vector table
\* is in force is overwritten by another one, if the applications have their
\* handler in the same place, no flash operation and no power fails, and no
\* data is lost on its way.
NeverHalts ==
    /\ \A i, j \in Images : SvcEntry[i] = SvcEntry[j]
    /\ mishaps = 0 /\ lost["other"] = 0
    => mode # "halted"

\* Lost loop numbers and a lost word of the vector table do not make the host
\* give up an application the bootloader has agreed to take.
UploadSurvives ==
    host = "failed" => \/ mishaps > 0
                       \/ lost["other"] > 0
                       \/ lost["table"] > 1
                       \/ lost["number"] >= Tries

\* What the host reports as loaded can be started, and what it reports as
\* reset cannot, once the bootloader has stored what it acknowledged.
ReportedIsSo ==
    host = "done" /\ Settled /\ mishaps = 0 =>
        App = IF image = NoImage THEN {} ELSE {image}

\* A session comes to an end.
SessionEnds == (host \notin Over) ~> (host \in Over)
=============================================================================
