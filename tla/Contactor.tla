----------------------------- MODULE Contactor -----------------------------
(***************************************************************************)
(* The contactor driver (src/src/app/driver/contactor/contactor.c): the    *)
(* registry of contactors, the state each is set to, the feedback that is  *)
(* read back once per call of CONT_CheckFeedback, and the diagnosis entry  *)
(* that debounces a mismatch of the two.                                   *)
(*                                                                         *)
(* A set of contactors stands for an array of switches: the members are    *)
(* on.  The outputs themselves are switched later by SPS_Ctrl, so what a   *)
(* feedback reads is up to the environment, within Readings.               *)
(***************************************************************************)
EXTENDS Naturals, FiniteSets, DiagEntry

CONSTANTS
    NrOfStrings,    \* BS_NR_OF_STRINGS
    WithPrecharge,  \* bs_stringsWithPrecharge: strings with a precharge path
    Faulty,         \* contactors whose feedback may differ from their setting
    SensorFaults,   \* TRUE: a faulty feedback reads anything; FALSE: a
                    \* contactor is late, stuck or drops out, but never closes
                    \* without being set
    FbThreshold     \* threshold of the three contactor feedback entries

Strings == 0 .. NrOfStrings - 1
Contactors == (Strings \X {"PLUS", "MINUS"}) \cup (WithPrecharge \X {"PRECHARGE"})

ASSUME ContactorAssumption ==
    /\ NrOfStrings \in Nat \ {0}
    /\ WithPrecharge \subseteq Strings
    /\ Faulty \subseteq Contactors
    /\ SensorFaults \in BOOLEAN
    /\ FbThreshold \in Nat

VARIABLES
    currentSet,     \* contactors set to CONT_SWITCH_ON
    feedback,       \* contactors whose last feedback was CONT_SWITCH_ON
    fbEntry         \* diagnosis entry of the feedback of each contactor

contVars == <<currentSet, feedback, fbEntry>>

ContTypeOK ==
    /\ currentSet \in SUBSET Contactors
    /\ feedback \in SUBSET Contactors
    /\ fbEntry \in [Contactors -> Entries(FbThreshold)]

ContInit ==
    /\ currentSet = {}
    /\ feedback = {}
    /\ fbEntry = [c \in Contactors |-> Cleared]

-----------------------------------------------------------------------------
\* What CONT_GetFeedbackOfAllContactors may read.  A contactor outside Faulty
\* reads as set; so does one with CONT_HAS_NO_FEEDBACK.
Readings ==
    {f \in SUBSET Contactors :
        \A c \in Contactors :
            \/ c \in f <=> c \in currentSet
            \/ c \in Faulty /\ (SensorFaults \/ c \notin f \/ c \in feedback)}

\* Mutant: only a contactor that does not close is reported.
CONT_CheckFeedback_OnlyWhenSet ==
    /\ feedback' \in Readings
    /\ fbEntry' = [c \in Contactors |->
                     IF c \in currentSet => c \in feedback'
                       THEN AfterOk(fbEntry[c])
                       ELSE AfterNotOk(fbEntry[c], FbThreshold)]

\* CONT_CheckFeedback: read every feedback, report match or mismatch.
CONT_CheckFeedback ==
    /\ feedback' \in Readings
    /\ fbEntry' = [c \in Contactors |->
                     IF c \in currentSet <=> c \in feedback'
                       THEN AfterOk(fbEntry[c])
                       ELSE AfterNotOk(fbEntry[c], FbThreshold)]

CONT_OpenContactor(s, type) == currentSet' = currentSet \ {<<s, type>>}

CONT_CloseContactor(s, type) == currentSet' = currentSet \cup {<<s, type>>}

CONT_OpenAllPrechargeContactors ==
    currentSet' = {c \in currentSet : c[2] # "PRECHARGE"}

CONT_OpenAllContactors == currentSet' = {}

\* CONT_GetContactorState of the feedback read by this call of BMS_Trigger.
ReadsOn(s, type) == <<s, type>> \in feedback'

\* Contactors whose feedback error is raised.
FeedbackErrors(entries) == {c \in Contactors : entries[c].error}
=============================================================================
