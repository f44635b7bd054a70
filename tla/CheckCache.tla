----------------------------- MODULE CheckCache -----------------------------
(***************************************************************************)
(* `tn check` with its cache of diagnostics (tn-driver, lib.rs), as several *)
(* processes run it at once - a shell, an editor's language server - on the *)
(* same directory, while files are edited.                                  *)
(*                                                                          *)
(* A check fingerprints every source file below the root, one after the     *)
(* other; answers from the cache file when that has the same fingerprint;   *)
(* and otherwise loads the graph, checks it, and writes its diagnostics     *)
(* under the fingerprint it computed first, through a temporary file that   *)
(* all processes share.  Diagnostics are stood for by what they are derived *)
(* from: the contents of the files of the graph.                            *)
(***************************************************************************)
EXTENDS SourceTree

CONSTANTS Checkers,   \* processes that run checks
          Inodes,     \* files of the directory of the cache
          NoFile      \* none of them

ASSUME CheckConstants == NoFile \notin Inodes

VARIABLES pc,            \* where each process is
          setup,         \* what it is asked to check (never changes)
          begun,         \* what the files held when it began (history)
          fingerprint,   \* what it has fingerprinted so far
          caching,       \* has it a fingerprint at all?
          loaded,        \* the modules it has read
          pending,       \* the modules it knows of and has not read
          answer,        \* what it answers
          handle,        \* the file it has open
          cacheFile,     \* .tn-check-cache.json, or none
          temporary,     \* .tn-check-cache.json.tmp, or none
          contents       \* what each file holds

checking == <<pc, setup, begun, fingerprint, caching, loaded, pending, answer, handle>>
directory == <<cacheFile, temporary, contents>>
checkVars == <<tree, checking, directory>>

\* Symbolic links and the directories named in collect_source_paths are passed by.
Collected == {f \in Files : Placed[f] = "source"}

Torn == [whole |-> FALSE]
Entry(s, key, diagnostics) == [whole |-> TRUE, setup |-> s, key |-> key, of |-> diagnostics]

Places == {"idle", "hash", "load", "open", "write", "rename", "answered"}

CheckInit ==
    /\ TreeInit
    /\ pc = [c \in Checkers |-> "idle"]
    /\ setup \in [Checkers -> Setups]
    /\ begun = [c \in Checkers |-> versions]
    /\ fingerprint = [c \in Checkers |-> Unread]
    /\ caching = [c \in Checkers |-> FALSE]
    /\ loaded = [c \in Checkers |-> Unread]
    /\ pending = [c \in Checkers |-> {}]
    /\ answer = [c \in Checkers |-> Unread]
    /\ handle = [c \in Checkers |-> NoFile]
    /\ cacheFile = NoFile /\ temporary = NoFile
    /\ contents = [i \in Inodes |-> Torn]

Goto(c, place) == pc' = [pc EXCEPT ![c] = place]

BeginCheck(c) ==
    /\ pc[c] = "idle"
    /\ Goto(c, "hash")
    /\ begun' = [begun EXCEPT ![c] = versions]
    /\ caching' = [caching EXCEPT ![c] = TRUE]
    /\ UNCHANGED <<tree, directory, setup, fingerprint, loaded, pending, answer, handle>>

Hash(c, f) ==
    /\ pc[c] = "hash" /\ f \in Collected \ DOMAIN fingerprint[c]
    /\ fingerprint' = [fingerprint EXCEPT ![c] = With(@, f, versions[f])]
    /\ UNCHANGED <<tree, directory, pc, setup, begun, caching, loaded, pending, answer, handle>>

StartLoading(c) ==
    /\ Goto(c, "load")
    /\ pending' = [pending EXCEPT ![c] = Roots(setup[c])]

\* A file that cannot be read leaves the check without a fingerprint.
HashFails(c) ==
    /\ pc[c] = "hash"
    /\ caching' = [caching EXCEPT ![c] = FALSE]
    /\ StartLoading(c)
    /\ UNCHANGED <<tree, directory, setup, begun, fingerprint, loaded, answer, handle>>

\* Does the cache file answer this check?
Hit(c) ==
    /\ cacheFile # NoFile
    /\ contents[cacheFile].whole
    /\ contents[cacheFile].setup = setup[c]
    /\ contents[cacheFile].key = fingerprint[c]

Look(c) ==
    /\ pc[c] = "hash" /\ DOMAIN fingerprint[c] = Collected
    /\ IF Hit(c)
       THEN /\ Goto(c, "answered")
            /\ answer' = [answer EXCEPT ![c] = contents[cacheFile].of]
            /\ UNCHANGED pending
       ELSE StartLoading(c) /\ UNCHANGED answer
    /\ UNCHANGED <<tree, directory, setup, begun, fingerprint, caching, loaded, handle>>

Load(c, f) ==
    /\ pc[c] = "load" /\ f \in pending[c]
    /\ loaded' = [loaded EXCEPT ![c] = With(@, f, versions[f])]
    /\ pending' = [pending EXCEPT ![c] = Discovered(loaded[c], @, f)]
    /\ UNCHANGED <<tree, directory, pc, setup, begun, fingerprint, caching, answer, handle>>

Check(c) ==
    /\ pc[c] = "load" /\ pending[c] = {}
    /\ answer' = [answer EXCEPT ![c] = loaded[c]]
    /\ Goto(c, IF caching[c] THEN "open" ELSE "answered")
    /\ UNCHANGED <<tree, directory, setup, begun, fingerprint, caching, loaded, pending, handle>>

\* Opening the temporary file makes it, or empties the one another process uses.
Unused(i) == i \notin {cacheFile, temporary} /\ \A c \in Checkers : handle[c] # i
Open(c) ==
    /\ pc[c] = "open"
    /\ \E i \in Inodes :
         /\ i = temporary \/ (temporary = NoFile /\ Unused(i))
         /\ temporary' = i
         /\ handle' = [handle EXCEPT ![c] = i]
         /\ contents' = [contents EXCEPT ![i] = Torn]
    /\ Goto(c, "write")
    /\ UNCHANGED <<tree, setup, begun, fingerprint, caching, loaded, pending, answer, cacheFile>>

\* Mutant: the entry is given the fingerprint the files have now.
WriteRehashed(c) ==
    /\ pc[c] = "write"
    /\ IF handle[c] \in {cacheFile, temporary}
       THEN contents' = [contents EXCEPT ![handle[c]] = Entry(setup[c], [f \in Collected |-> versions[f]], answer[c])]
       ELSE UNCHANGED contents
    /\ Goto(c, "rename")
    /\ UNCHANGED <<tree, setup, begun, fingerprint, caching, loaded, pending, answer, handle, cacheFile, temporary>>

\* Where another process has written more, its end remains.  What is written
\* to a file that has no name any more is lost.
Write(c) ==
    /\ pc[c] = "write"
    /\ IF handle[c] \in {cacheFile, temporary}
       THEN \E bytes \in {Entry(setup[c], fingerprint[c], answer[c])}
                         \cup (IF contents[handle[c]].whole THEN {Torn} ELSE {}) :
              contents' = [contents EXCEPT ![handle[c]] = bytes]
       ELSE UNCHANGED contents
    /\ Goto(c, "rename")
    /\ UNCHANGED <<tree, setup, begun, fingerprint, caching, loaded, pending, answer, handle, cacheFile, temporary>>

\* The name may be gone, or be another process's file by now.
Rename(c) ==
    /\ pc[c] = "rename"
    /\ IF temporary = NoFile THEN UNCHANGED directory
       ELSE /\ cacheFile' = temporary /\ temporary' = NoFile
            /\ contents' = [i \in Inodes |-> IF i = temporary THEN contents[i] ELSE Torn]
    /\ handle' = [handle EXCEPT ![c] = NoFile]
    /\ Goto(c, "answered")
    /\ UNCHANGED <<tree, setup, begun, fingerprint, caching, loaded, pending, answer>>

\* Every failure to write is passed over: the answer stands.
WriteFails(c) ==
    /\ pc[c] \in {"open", "write"}
    /\ handle' = [handle EXCEPT ![c] = NoFile]
    /\ Goto(c, "answered")
    /\ UNCHANGED <<tree, directory, setup, begun, fingerprint, caching, loaded, pending, answer>>

\* The process ends: it has answered, or is killed before that.
Exit(c) ==
    /\ pc[c] # "idle"
    /\ Goto(c, "idle")
    /\ fingerprint' = [fingerprint EXCEPT ![c] = Unread]
    /\ caching' = [caching EXCEPT ![c] = FALSE]
    /\ loaded' = [loaded EXCEPT ![c] = Unread]
    /\ pending' = [pending EXCEPT ![c] = {}]
    /\ answer' = [answer EXCEPT ![c] = Unread]
    /\ handle' = [handle EXCEPT ![c] = NoFile]
    /\ begun' = [begun EXCEPT ![c] = versions]
    /\ UNCHANGED <<tree, directory, setup>>

CheckStep(c) ==
    \/ BeginCheck(c) \/ HashFails(c) \/ Look(c) \/ Check(c) \/ Open(c) \/ Write(c) \/ Rename(c)
    \/ WriteFails(c) \/ Exit(c)
    \/ \E f \in Files : Hash(c, f) \/ Load(c, f)

\* Files are edited at any time, but an edit that a check has seen half of is
\* not undone.
EditSources(f, v) ==
    /\ undoing => \A c \in Checkers : pc[c] = "idle"
    /\ Save(f, v)
    /\ UNCHANGED <<checking, directory>>

CheckNext ==
    \/ \E c \in Checkers : CheckStep(c)
    \/ \E f \in Files, v \in Versions : EditSources(f, v)

CheckSpec == CheckInit /\ [][CheckNext]_checkVars

-----------------------------------------------------------------------------
\* Functions from some of the files to their contents.
Snapshots == UNION {[some -> Versions] : some \in SUBSET Files}

TypeOK ==
    /\ versions \in [Files -> Versions] /\ undoing \in BOOLEAN
    /\ pc \in [Checkers -> Places]
    /\ setup \in [Checkers -> Setups]
    /\ begun \in [Checkers -> [Files -> Versions]]
    /\ fingerprint \in [Checkers -> Snapshots]
    /\ caching \in [Checkers -> BOOLEAN]
    /\ loaded \in [Checkers -> Snapshots]
    /\ pending \in [Checkers -> SUBSET Files]
    /\ answer \in [Checkers -> Snapshots]
    /\ handle \in [Checkers -> Inodes \cup {NoFile}]
    /\ cacheFile \in Inodes \cup {NoFile} /\ temporary \in Inodes \cup {NoFile}

\* Whether it answers from the cache or not, and whatever other processes and
\* editors do at the same time: a check answers for the module graph of its
\* entry, with every file as it was at some moment since the check began.
AnswersCurrent ==
    \A c \in Checkers : pc[c] = "answered" =>
        /\ Closed(setup[c], answer[c])
        /\ \A f \in DOMAIN answer[c] : begun[c][f] <= answer[c][f] /\ answer[c][f] <= versions[f]

=============================================================================
