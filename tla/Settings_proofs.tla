---------------------------- MODULE Settings_proofs ----------------------------
(***************************************************************************)
(* Saves that do not run at the same time are atomic, for any number of     *)
(* them and whatever of them fails or dies: the file in force is whole.     *)
(***************************************************************************)
EXTENDS Settings, FiniteSetTheorems, TLAPS

\* One save at a time.
Alone == \A s, t \in Saver : AtWork(s) /\ AtWork(t) => s = t

\* What is in force is one document.
Whole == \E v \in Setting : InForce = {v}

\* The file that is being written is not the one in force.
Apart == draft # NoFile => draft # config

\* A saver that has not opened its file has none yet.
Fresh == \A s \in Saver : saving[s] \in {"idle", "open"} => config # s /\ draft # s

\* A saver that has opened the temporary file writes into that file, which it
\* cut off, and then holds exactly its document.
Holding ==
  \A s \in Saver : saving[s] \in {"write", "rename"} =>
    /\ draft # NoFile
    /\ handle[s] = draft
    /\ content[draft] = IF saving[s] = "write" THEN {} ELSE {document[s]}

\* Nothing has changed what is in force since a save began.
Remembered == \A s \in Saver : AtWork(s) => former[s] = InForce

SettingsInv == TypeOK /\ Alone /\ Whole /\ Apart /\ Fresh /\ Holding /\ Remembered

-------------------------------------------------------------------------------
(* The invariant.                                                          *)

LEMMA InitSettings ==
  ASSUME Init
  PROVE  SettingsInv
<1> USE SettingsAssumption
<1>1. PICK v \in Setting : content = [f \in File |-> IF f = config THEN {v} ELSE {}]
  BY DEF Init
<1>2. TypeOK
  BY <1>1 DEF Init, TypeOK, File
<1>3. Whole
  BY <1>1 DEF Init, Whole, InForce, File
<1>4. Alone /\ Apart /\ Fresh /\ Holding /\ Remembered
  BY DEF Init, Alone, AtWork, Apart, Fresh, Holding, Remembered, File
<1> QED
  BY <1>2, <1>3, <1>4 DEF SettingsInv

\* A save begins only when no other is at work.
LEMMA BeginKeeps ==
  ASSUME OneSaver, SettingsInv, NEW s \in Saver, NEW v \in Setting, SaveSettings(s, v)
  PROVE  SettingsInv'
<1> USE SettingsAssumption DEF SettingsInv, SaveSettings
<1>1. InForce' = InForce
  BY DEF InForce
<1>2. InForce \in SUBSET Setting
  BY DEF Whole
<1>3. TypeOK'
  BY <1>2 DEF TypeOK
<1>4. Alone'
  BY DEF TypeOK, Alone, AtWork
<1>5. Whole' /\ Apart'
  BY <1>1 DEF Whole, Apart
<1>6. Fresh'
  BY DEF TypeOK, Fresh
<1>7. Holding'
  BY DEF TypeOK, Holding
<1>8. Remembered'
  BY <1>1 DEF TypeOK, Remembered, AtWork
<1> QED
  BY <1>3, <1>4, <1>5, <1>6, <1>7, <1>8

\* A save that fails touches at most the temporary file, which no other writes.
LEMMA FailKeeps ==
  ASSUME SettingsInv, NEW s \in Saver, SaveFails(s)
  PROVE  SettingsInv'
<1> USE SettingsAssumption DEF SettingsInv, SaveFails
<1>1. InForce' = InForce
  BY DEF InForce
<1>2. \A t \in Saver : t # s => ~AtWork(t) /\ ~AtWork(t)'
  BY DEF TypeOK, Alone, AtWork
<1>3. ~AtWork(s)'
  BY DEF TypeOK, AtWork
<1>4. TypeOK'
  BY DEF TypeOK
<1>5. Alone' /\ Whole' /\ Apart' /\ Remembered'
  BY <1>1, <1>2, <1>3 DEF Alone, Whole, Apart, Remembered
<1>6. Fresh'
  BY DEF TypeOK, Fresh, File
<1>7. Holding'
  BY <1>2, <1>3 DEF Holding, AtWork
<1> QED
  BY <1>4, <1>5, <1>6, <1>7

\* The temporary file is opened, or made, apart from the one in force.
LEMMA OpenKeeps ==
  ASSUME SettingsInv, NEW s \in Saver, OpenDraft(s)
  PROVE  SettingsInv'
<1> USE SettingsAssumption DEF SettingsInv, OpenDraft
<1> DEFINE f == IF draft = NoFile THEN s ELSE draft
<1>1. /\ f \in File /\ f # config /\ f # NoFile
      /\ handle' = [handle EXCEPT ![s] = f]
      /\ content' = [content EXCEPT ![f] = {}]
      /\ draft' = f
      /\ \A t \in Saver : t # s => f # t \/ draft = t
  BY DEF TypeOK, Apart, Fresh, File
<1> HIDE DEF f
<1>2. InForce' = InForce
  BY <1>1 DEF InForce, TypeOK
<1>3. \A t \in Saver : t # s => ~AtWork(t) /\ ~AtWork(t)'
  BY DEF TypeOK, Alone, AtWork
<1>4. TypeOK'
  BY <1>1 DEF TypeOK
<1>5. Alone' /\ Whole' /\ Apart'
  BY <1>1, <1>2, <1>3 DEF Alone, Whole, Apart
<1>6. Fresh'
  BY <1>1 DEF TypeOK, Fresh
<1>7. Holding'
  BY <1>1, <1>3 DEF Holding, AtWork, TypeOK
<1>8. Remembered'
  BY <1>2, <1>3 DEF Remembered, AtWork
<1> QED
  BY <1>4, <1>5, <1>6, <1>7, <1>8

\* A write goes to the temporary file, which was empty.
LEMMA WriteKeeps ==
  ASSUME SettingsInv, NEW s \in Saver, WriteDraft(s)
  PROVE  SettingsInv'
<1> USE SettingsAssumption DEF SettingsInv, WriteDraft
<1>1. /\ handle[s] = draft /\ draft # NoFile /\ draft \in File /\ draft # config
      /\ content[draft] = {}
  BY DEF Holding, Apart, TypeOK
<1>2. content' = [content EXCEPT ![draft] = {document[s]}]
  BY <1>1
<1>3. InForce' = InForce
  BY <1>1, <1>2 DEF InForce, TypeOK
<1>4. \A t \in Saver : t # s => ~AtWork(t) /\ ~AtWork(t)'
  BY DEF TypeOK, Alone, AtWork
<1>5. TypeOK'
  BY <1>1, <1>2 DEF TypeOK
<1>6. Alone' /\ Whole' /\ Apart'
  BY <1>3, <1>4 DEF Alone, Whole, Apart
<1>7. Fresh'
  BY DEF TypeOK, Fresh
<1>8. Holding'
  BY <1>1, <1>2, <1>4 DEF Holding, AtWork, TypeOK
<1>9. Remembered'
  BY <1>3, <1>4 DEF Remembered, AtWork
<1> QED
  BY <1>5, <1>6, <1>7, <1>8, <1>9

\* A rename puts a whole document in force.
LEMMA RenameKeeps ==
  ASSUME SettingsInv, NEW s \in Saver, RenameDraft(s)
  PROVE  SettingsInv' /\ saving'[s] = "saved" /\ InForce' = {document[s]}
<1> USE SettingsAssumption DEF SettingsInv, RenameDraft
<1>1. /\ draft # NoFile /\ draft \in File
      /\ content[draft] = {document[s]}
  BY DEF Holding, TypeOK
<1>2. config' = draft /\ draft' = NoFile /\ saving' = [saving EXCEPT ![s] = "saved"]
  BY <1>1
<1>3. InForce' = {document[s]}
  BY <1>1, <1>2 DEF InForce
<1>4. \A t \in Saver : ~AtWork(t)'
  BY <1>2 DEF TypeOK, Alone, AtWork
<1>5. TypeOK' /\ saving'[s] = "saved"
  BY <1>1, <1>2 DEF TypeOK
<1>6. Whole'
  BY <1>3 DEF Whole, TypeOK
<1>7. Alone' /\ Apart' /\ Holding' /\ Remembered'
  BY <1>2, <1>4 DEF Alone, Apart, Holding, Remembered, AtWork
<1>8. Fresh'
  BY <1>2 DEF Fresh, TypeOK, File
<1> QED
  BY <1>3, <1>5, <1>6, <1>7, <1>8

\* When the process dies nobody is at work, and the file in force is as it was.
LEMMA DeathKeeps ==
  ASSUME SettingsInv, SavesDie
  PROVE  SettingsInv' /\ InForce' = InForce /\ \A s \in Saver : ~AtWork(s)'
<1> USE SettingsAssumption DEF SettingsInv, SavesDie
<1>1. InForce' = InForce
  BY DEF InForce
<1>2. \A s \in Saver : ~AtWork(s)'
  BY DEF TypeOK, AtWork
<1>3. TypeOK'
  BY DEF TypeOK, AtWork
<1>4. Alone' /\ Whole' /\ Apart' /\ Remembered' /\ Holding'
  BY <1>1, <1>2 DEF Alone, Whole, Apart, Remembered, Holding, AtWork
<1>5. Fresh'
  BY DEF Fresh, TypeOK, AtWork
<1> QED
  BY <1>1, <1>2, <1>3, <1>4, <1>5

LEMMA SettingsStep ==
  ASSUME OneSaver, SettingsInv, [Next]_vars
  PROVE  SettingsInv'
<1>1. ASSUME NEW s \in Saver, Save(s)
      PROVE  SettingsInv'
  BY <1>1, FailKeeps, OpenKeeps, WriteKeeps, RenameKeeps DEF Save
<1>2. ASSUME NEW s \in Saver, NEW v \in Setting, SaveSettings(s, v)
      PROVE  SettingsInv'
  BY <1>2, BeginKeeps
<1>3. CASE UNCHANGED vars
  BY <1>3 DEF vars, SettingsInv, TypeOK, Alone, AtWork, Whole, InForce, Apart, Fresh,
              Holding, Remembered
<1> QED
  BY <1>1, <1>2, <1>3, DeathKeeps DEF Next

-------------------------------------------------------------------------------
(* The theorems.                                                           *)

LEMMA SettingsInvariance == OneSaver /\ Spec => []SettingsInv
<1> SUFFICES ASSUME OneSaver
             PROVE  Spec => []SettingsInv
  OBVIOUS
<1>1. Init => SettingsInv
  BY InitSettings
<1>2. SettingsInv /\ [Next]_vars => SettingsInv'
  BY SettingsStep
<1> QED
  BY <1>1, <1>2, PTL DEF Spec

\* As long as saves do not run at the same time, there is always one whole
\* document in force, whatever of them fails or dies.
THEOREM ConfigAlwaysWhole == OneSaver /\ Spec => []ConfigWhole
<1>1. SettingsInv => ConfigWhole
  BY FS_Singleton DEF SettingsInv, Whole, ConfigWhole, Parses
<1> QED
  BY <1>1, SettingsInvariance, PTL

\* As long as saves do not run at the same time, one that reports success has put
\* its document in force, and any other has left in force what was.
THEOREM SaveAlwaysTruthful == OneSaver /\ Spec => SaveTruthful
<1>1. ASSUME SettingsInv, [Next]_vars
      PROVE  [SavesTruly]_vars
  <2>1. ASSUME NEW s \in Saver, Save(s) \/ \E v \in Setting : SaveSettings(s, v)
        PROVE  SavesTruly
    <3>1. \A t \in Saver : t # s => saving'[t] = saving[t]
      BY <1>1, <2>1 DEF Save, SaveFails, OpenDraft, WriteDraft, RenameDraft, SaveSettings,
                        SettingsInv, TypeOK
    <3>2. ASSUME AtWork(s), ~AtWork(s)'
          PROVE  InForce' = IF saving'[s] = "saved" THEN {document[s]} ELSE former[s]
      <4>1. CASE SaveFails(s)
        <5>1. InForce' = InForce /\ saving'[s] = "failed"
          BY <4>1, <1>1 DEF SaveFails, InForce, SettingsInv, TypeOK
        <5> QED
          BY <5>1, <3>2, <1>1 DEF SettingsInv, Remembered
      <4>2. CASE RenameDraft(s)
        BY <4>2, <1>1, RenameKeeps
      <4>3. ~OpenDraft(s) /\ ~WriteDraft(s) /\ \A v \in Setting : ~SaveSettings(s, v)
        BY <3>2, <1>1 DEF OpenDraft, WriteDraft, SaveSettings, AtWork, SettingsInv, TypeOK
      <4> QED
        BY <4>1, <4>2, <4>3, <2>1 DEF Save
    <3> QED
      BY <3>1, <3>2 DEF SavesTruly, AtWork
  <2>2. CASE SavesDie
    <3>1. \A s \in Saver : AtWork(s) => saving'[s] = "dead"
      BY <2>2, <1>1 DEF SavesDie, SettingsInv, TypeOK
    <3> QED
      BY <3>1, <2>2, <1>1, DeathKeeps DEF SavesTruly, SettingsInv, Remembered
  <2> QED
    BY <1>1, <2>1, <2>2 DEF Next
<1>2. SettingsInv /\ [Next]_vars => [SavesTruly]_vars
  BY <1>1
<1> QED
  BY <1>2, SettingsInvariance, PTL DEF Spec, SaveTruthful
===============================================================================
