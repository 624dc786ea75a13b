------------------------------ MODULE FactsStore ------------------------------
(* The two halves of the facts store: files addressed by the digest of their  *)
(* content (internal/facts/filesystem.go) and the table that maps the hash in *)
(* an agent record to such a file (postgres_pointer_store.go).  A document, its*)
(* path, its pointer and the pointer's hash determine each other, so all four *)
(* are represented by the document.                                           *)
(*                                                                            *)
(* os.WriteFile truncates the file it finds and then writes it; a reader in   *)
(* between, or after a failure in between, sees the beginning of the document.*)
CONSTANT Documents   \* the facts documents clients may register

VARIABLES
  file,      \* document -> the state of the file at its path
  pointers   \* the documents facts_pointers has a row for

factsVars == <<file, pointers>>

FileStates == {"absent", "torn", "whole"}

FactsTypeOK ==
  /\ file \in [Documents -> FileStates]
  /\ pointers \subseteq Documents

FactsInit ==
  /\ file = [d \in Documents |-> "absent"]
  /\ pointers = {}

\* Put, first half: the directories and the file exist, the file is empty.
Truncate(d) ==
  /\ file' = [file EXCEPT ![d] = "torn"]
  /\ UNCHANGED pointers

\* Put, second half: the bytes of the document are in the file.
Write(d) ==
  /\ file' = [file EXCEPT ![d] = "whole"]
  /\ UNCHANGED pointers

\* PutFactsPointer: one upsert, by which the row exists and is the document's.
PutFactsPointer(d) ==
  /\ pointers' = pointers \cup {d}
  /\ UNCHANGED file

\* ResolveFactsPointer finds the row the record's hash names, or none.
HasPointer(d) == d \in pointers

\* Get finds a file, whole or not, or none.
HasFile(d) == file[d] # "absent"
==============================================================================
