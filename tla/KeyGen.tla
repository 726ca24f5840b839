-------------------------------- MODULE KeyGen --------------------------------
(***************************************************************************)
(* generateKeypair of the Noise server (src/unnamed/part_000, lines        *)
(* 516-580), run by main for -gen-key.  It writes the private and the      *)
(* public key each to its file when a name is given, and a deferred loop   *)
(* deletes the files named in toDelete, which is cleared once both writes  *)
(* have succeeded.  Every step that touches the outside can fail: key      *)
(* generation, os.Create, noise.WriteKey, f.Close and os.Remove.  A file's *)
(* content is abstracted to what a reader would find: "absent", "old" (a   *)
(* file that existed before), "empty", a whole key ("priv" or "pub") or    *)
(* "partial".  Printing to standard output is left out.                    *)
(***************************************************************************)
EXTENDS Sequences

CONSTANT Names   \* file names a user may give

NoName == ""     \* an empty -privkey-file or -pubkey-file flag

VARIABLES
    privkeyFilename, pubkeyFilename,  \* the arguments
    pc,            \* "generate", Create(k), Write(k), "commit", "cleanup", "done"
    files,         \* files[n]: the content of file n
    toDelete,      \* the local of that name: files to delete on the way out
    err,           \* the named result err is non-nil
    created,       \* history: files this call has created (truncated)
    removeFailed   \* history: files whose os.Remove failed

vars == <<privkeyFilename, pubkeyFilename, pc, files, toDelete, err, created, removeFailed>>

KeyFilename(k) == IF k = "priv" THEN privkeyFilename ELSE pubkeyFilename

(* The steps of key k's block: os.Create, then noise.WriteKey and Close.  *)
Create(k) == IF k = "priv" THEN "createPriv" ELSE "createPub"
Write(k) == IF k = "priv" THEN "writePriv" ELSE "writePub"

(* The step after key k's block: the public key's block, then the commit. *)
AfterKey(k) == IF k = "priv" THEN Create("pub") ELSE "commit"

-----------------------------------------------------------------------------
(* noise.GenerateKeypair; on an error generateKeypair returns it.          *)
GenerateKeys(ok) ==
    /\ pc = "generate"
    /\ pc' = IF ok THEN Create("priv") ELSE "cleanup"
    /\ err' = ~ok
    /\ UNCHANGED <<privkeyFilename, pubkeyFilename, files, toDelete, created, removeFailed>>

(* No file name for key k: its block is skipped (the key is printed).     *)
SkipKeyFile(k) ==
    /\ pc = Create(k) /\ KeyFilename(k) = NoName
    /\ pc' = AfterKey(k)
    /\ UNCHANGED <<privkeyFilename, pubkeyFilename, files, toDelete, err, created, removeFailed>>

(* A mutant of CreateKeyFile: the file is put on toDelete only after the   *)
(* key has been written.                                                   *)
CreateKeyFileNoRegister(k, ok) ==
    /\ pc = Create(k) /\ KeyFilename(k) # NoName
    /\ IF ok
       THEN /\ files' = [files EXCEPT ![KeyFilename(k)] = "empty"]
            /\ created' = created \cup {KeyFilename(k)}
            /\ pc' = Write(k)
            /\ UNCHANGED err
       ELSE /\ err' = TRUE /\ pc' = "cleanup"
            /\ UNCHANGED <<files, created>>
    /\ UNCHANGED <<privkeyFilename, pubkeyFilename, toDelete, removeFailed>>

(* os.Create of key k's file, truncating any file of that name.  On an    *)
(* error generateKeypair returns it; else the name goes on toDelete.      *)
CreateKeyFile(k, ok) ==
    /\ pc = Create(k) /\ KeyFilename(k) # NoName
    /\ IF ok
       THEN /\ files' = [files EXCEPT ![KeyFilename(k)] = "empty"]
            /\ toDelete' = Append(toDelete, KeyFilename(k))
            /\ created' = created \cup {KeyFilename(k)}
            /\ pc' = Write(k)
            /\ UNCHANGED err
       ELSE /\ err' = TRUE /\ pc' = "cleanup"
            /\ UNCHANGED <<files, toDelete, created>>
    /\ UNCHANGED <<privkeyFilename, pubkeyFilename, removeFailed>>

(* What a reader finds after noise.WriteKey and f.Close: the whole key, a  *)
(* partial one when the write failed, and either when only Close failed   *)
(* (buffered data may not have reached the file).                          *)
WrittenContents(k, writeOK, closeOK) ==
    IF ~writeOK THEN {"partial"} ELSE IF closeOK THEN {k} ELSE {k, "partial"}

(* A mutant of WriteKeyFile: the error of f.Close is ignored.              *)
WriteKeyFileIgnoresClose(k, writeOK, closeOK, content) ==
    /\ pc = Write(k)
    /\ files' = [files EXCEPT ![KeyFilename(k)] = content]
    /\ err' = ~writeOK
    /\ pc' = IF writeOK THEN AfterKey(k) ELSE "cleanup"
    /\ UNCHANGED <<privkeyFilename, pubkeyFilename, toDelete, created, removeFailed>>

(* noise.WriteKey, then f.Close whose error counts when the write's did    *)
(* not; on an error generateKeypair returns it.                            *)
WriteKeyFile(k, writeOK, closeOK, content) ==
    /\ pc = Write(k)
    /\ files' = [files EXCEPT ![KeyFilename(k)] = content]
    /\ err' = ~(writeOK /\ closeOK)
    /\ pc' = IF writeOK /\ closeOK THEN AfterKey(k) ELSE "cleanup"
    /\ UNCHANGED <<privkeyFilename, pubkeyFilename, toDelete, created, removeFailed>>

(* Both blocks succeeded: toDelete = nil, and generateKeypair returns nil. *)
Commit ==
    /\ pc = "commit"
    /\ toDelete' = <<>> /\ pc' = "cleanup"
    /\ UNCHANGED <<privkeyFilename, pubkeyFilename, files, err, created, removeFailed>>

(* One iteration of the deferred loop: os.Remove of the next name, which   *)
(* fails on a file that is gone; a failure becomes the result if it was   *)
(* nil.                                                                    *)
RemoveFile(ok) ==
    /\ pc = "cleanup" /\ toDelete # <<>>
    /\ LET n == Head(toDelete)
           removed == ok /\ files[n] # "absent"
       IN /\ files' = [files EXCEPT ![n] = IF removed THEN "absent" ELSE @]
          /\ removeFailed' = IF removed THEN removeFailed ELSE removeFailed \cup {n}
          /\ err' = (err \/ ~removed)
    /\ toDelete' = Tail(toDelete)
    /\ UNCHANGED <<privkeyFilename, pubkeyFilename, pc, created>>

(* The deferred loop is done and generateKeypair returns.                  *)
Return ==
    /\ pc = "cleanup" /\ toDelete = <<>>
    /\ pc' = "done"
    /\ UNCHANGED <<privkeyFilename, pubkeyFilename, files, toDelete, err, created, removeFailed>>

-----------------------------------------------------------------------------
(* Any two names, the empty one included, and files that exist or not.     *)
Init ==
    /\ privkeyFilename \in Names \cup {NoName}
    /\ pubkeyFilename \in Names \cup {NoName}
    /\ files \in [Names -> {"absent", "old"}]
    /\ pc = "generate" /\ toDelete = <<>> /\ err = FALSE
    /\ created = {} /\ removeFailed = {}

Next ==
    \/ \E ok \in BOOLEAN : GenerateKeys(ok) \/ RemoveFile(ok)
    \/ \E k \in {"priv", "pub"} :
          \/ SkipKeyFile(k)
          \/ \E ok \in BOOLEAN : CreateKeyFile(k, ok)
          \/ \E w, c \in BOOLEAN : \E content \in WrittenContents(k, w, c) :
                WriteKeyFile(k, w, c, content)
    \/ Commit \/ Return

Spec == Init /\ [][Next]_vars

-----------------------------------------------------------------------------
TypeOK ==
    /\ files \in [Names -> {"absent", "old", "empty", "priv", "pub", "partial"}]
    /\ toDelete \in Seq(Names) /\ err \in BOOLEAN
    /\ created \subseteq Names /\ removeFailed \subseteq Names

====
