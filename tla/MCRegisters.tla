---------------------------- MODULE MCRegisters ----------------------------
(***************************************************************************)
(* The registers the platform keeps, for TLC: the file of an incident, the *)
(* compliance register, the numbers behind the views, and the schema all   *)
(* of them live in.  They share no state, so one of them moves in a        *)
(* behaviour, and `turn` says which.                                       *)
(***************************************************************************)
EXTENDS CaseFile, ComplianceRegister, Posture, Migrations, TLC

VARIABLE turn

CONSTANTS s1, s2, s3, p1, p2

Sessions == {s1, s2, s3}
Two == {p1, p2}

Interchangeable == Permutations(Sessions)

vars == <<caseVars, registerVars, postureVars, migrationVars, turn>>

Init ==
    /\ CaseInit /\ RegisterInit /\ PostureInit /\ MigrationsInit
    /\ turn \in {"case", "records", "obligations", "posture", "schema"}

Next ==
    \/ /\ turn = "case" /\ CaseNext
       /\ UNCHANGED <<registerVars, postureVars, migrationVars, turn>>
    \/ /\ turn = "records" /\ RecordStep
       /\ UNCHANGED <<caseVars, postureVars, migrationVars, turn>>
    \/ /\ turn = "obligations"
       /\ \/ \E e \in Editors : ObligationStep(e)
          \/ \E c \in Controls : UpsertFails(c)
       /\ UNCHANGED <<caseVars, postureVars, migrationVars, turn>>
    \/ /\ turn = "posture" /\ PostureNext
       /\ UNCHANGED <<caseVars, registerVars, migrationVars, turn>>
    \/ /\ turn = "schema" /\ MigrationsNext
       /\ UNCHANGED <<caseVars, registerVars, postureVars, turn>>

Spec == Init /\ [][Next]_vars

(* Each of the four is well typed (CaseFile, ComplianceRegister, Posture,  *)
(* Migrations).                                                            *)
TypeOK == CaseTypeOK /\ RegisterTypeOK /\ PostureTypeOK /\ MigrationsTypeOK
=============================================================================
