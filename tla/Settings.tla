-------------------------------- MODULE Settings --------------------------------
(***************************************************************************)
(* config.json, and SaveSettings: write config.json.tmp, rename it over the *)
(* old file.  All savers share that one temporary name, and a saver that   *)
(* has opened the file writes into it under whatever name it has by then.  *)
(* A file is an inode; its content is the set of the documents it holds     *)
(* pieces of: {} when it is empty or cut off, and more than one when one    *)
(* was written over another.  It parses when it is exactly one.             *)
(***************************************************************************)
EXTENDS Naturals, FiniteSets

CONSTANTS
  Saver,       \* calls of SaveSettings
  Setting,     \* the documents
  Default,     \* what holds without a file
  Old, NoFile, \* the file there may be at the start; no file
  SaveFaults,  \* the steps of a save that may fail
  OneSaver     \* TRUE: at most one save at a time

File == Saver \cup {Old}

ASSUME SettingsAssumption ==
  /\ Default \in Setting
  /\ Old \notin Saver /\ NoFile \notin File
  /\ SaveFaults \subseteq {"open", "write", "rename"}
  /\ OneSaver \in BOOLEAN

VARIABLES
  config,     \* the file named config.json
  draft,      \* the file named config.json.tmp
  content,    \* content[f]: the documents file f holds pieces of
  handle,     \* handle[s]: the file saver s has open
  saving,     \* saving[s]: where saver s is
  document,   \* document[s]: what it was asked to save
  former      \* former[s]: history, what was in force when it was asked

vars == <<config, draft, content, handle, saving, document, former>>

TypeOK ==
  /\ config \in File \cup {NoFile}
  /\ draft \in File \cup {NoFile}
  /\ content \in [File -> SUBSET Setting]
  /\ handle \in [Saver -> File \cup {NoFile}]
  /\ saving \in [Saver -> {"idle", "open", "write", "rename", "saved", "failed", "dead"}]
  /\ document \in [Saver -> Setting]
  /\ former \in [Saver -> SUBSET Setting]

Init ==
  /\ config \in {Old, NoFile}
  /\ draft = NoFile
  /\ \E v \in Setting : content = [f \in File |-> IF f = config THEN {v} ELSE {}]
  /\ handle = [s \in Saver |-> NoFile]
  /\ saving = [s \in Saver |-> "idle"]
  /\ document = [s \in Saver |-> Default]
  /\ former = [s \in Saver |-> {}]

\* GetSettings: the document in force, if there is one that parses.
InForce == IF config = NoFile THEN {Default} ELSE content[config]
Parses == Cardinality(InForce) = 1
GetSettings == CHOOSE v \in Setting : InForce = {v}

-------------------------------------------------------------------------------

AtWork(s) == saving[s] \in {"open", "write", "rename"}

SaveSettings(s, v) ==
  /\ saving[s] = "idle"
  /\ OneSaver => \A t \in Saver : ~AtWork(t)
  /\ saving' = [saving EXCEPT ![s] = "open"]
  /\ document' = [document EXCEPT ![s] = v]
  /\ former' = [former EXCEPT ![s] = InForce]
  /\ UNCHANGED <<config, draft, content, handle>>

\* A step of a save that fails ends it.  Only a rename that fails removes the
\* temporary file.
SaveFails(s) ==
  /\ AtWork(s)
  /\ saving[s] \in SaveFaults
  /\ saving' = [saving EXCEPT ![s] = "failed"]
  /\ draft' = IF saving[s] = "rename" THEN NoFile ELSE draft
  /\ UNCHANGED <<config, content, handle, document, former>>

\* Mutant: the file is written in place.
OpenInPlace(s) ==
  /\ saving[s] = "open"
  /\ LET f == IF config = NoFile THEN s ELSE config
     IN /\ handle' = [handle EXCEPT ![s] = f]
        /\ content' = [content EXCEPT ![f] = {}]
        /\ draft' = f
  /\ saving' = [saving EXCEPT ![s] = "write"]
  /\ UNCHANGED <<config, document, former>>

\* os.WriteFile: open, which creates the file or cuts it off ...
OpenDraft(s) ==
  /\ saving[s] = "open"
  /\ LET f == IF draft = NoFile THEN s ELSE draft
     IN /\ handle' = [handle EXCEPT ![s] = f]
        /\ content' = [content EXCEPT ![f] = {}]
        /\ draft' = f
  /\ saving' = [saving EXCEPT ![s] = "write"]
  /\ UNCHANGED <<config, document, former>>

\* ... and write, from the start of the file.
WriteDraft(s) ==
  /\ saving[s] = "write"
  /\ \E written \in {{document[s]}, content[handle[s]] \cup {document[s]}} :
       content' = [content EXCEPT ![handle[s]] = written]
  /\ saving' = [saving EXCEPT ![s] = "rename"]
  /\ UNCHANGED <<config, draft, handle, document, former>>

\* os.Rename; without a temporary file by that name it fails.
RenameDraft(s) ==
  /\ saving[s] = "rename"
  /\ \/ /\ draft # NoFile
        /\ config' = draft
        /\ draft' = NoFile
        /\ saving' = [saving EXCEPT ![s] = "saved"]
     \/ /\ draft = NoFile
        /\ saving' = [saving EXCEPT ![s] = "failed"]
        /\ UNCHANGED <<config, draft>>
  /\ UNCHANGED <<content, handle, document, former>>

Save(s) == SaveFails(s) \/ OpenDraft(s) \/ WriteDraft(s) \/ RenameDraft(s)

\* The process dies with all its saves; the files are what is left.
SavesDie ==
  /\ \E s \in Saver : AtWork(s)
  /\ saving' = [s \in Saver |-> IF AtWork(s) THEN "dead" ELSE saving[s]]
  /\ UNCHANGED <<config, draft, content, handle, document, former>>

Next ==
  \/ \E s \in Saver : Save(s) \/ \E v \in Setting : SaveSettings(s, v)
  \/ SavesDie

Spec == Init /\ [][Next]_vars

-------------------------------------------------------------------------------

\* SaveSettings "persists settings atomically to disk": at any time, and whatever
\* of a save fails or dies, there is one whole document in force.
ConfigWhole == Parses

\* A save that reports success has put its document in force, and one that fails
\* or dies has left in force what was.
SavesTruly ==
  \A s \in Saver : AtWork(s) /\ ~AtWork(s)' =>
    InForce' = IF saving'[s] = "saved" THEN {document[s]} ELSE former[s]

SaveTruthful == [][SavesTruly]_vars
===============================================================================
