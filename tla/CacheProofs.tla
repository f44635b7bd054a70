----------------------------- MODULE CacheProofs -----------------------------
(***************************************************************************)
(* Proofs about CheckCache and BuildCache: for any number of processes,    *)
(* files, contents, setups and edits, a check or a build that is answered  *)
(* from its cache is answered as well as one that is not, and a build of   *)
(* what is built already compiles nothing.                                 *)
(***************************************************************************)
EXTENDS Caches, TLAPS

\* Every file a graph may have is one the fingerprint covers.
AllCollected == \A f \in Files : Placed[f] = "source"

Contents == {Torn} \cup [whole : {TRUE}, setup : Setups, key : Snapshots, of : Snapshots]
TypeInv == TypeOK /\ contents \in [Inodes -> Contents]

(* The inductive invariant.  An entry of the cache was loaded after it was   *)
(* fingerprinted, so that no file in it is older than its fingerprint says;  *)
(* where contents come back, it is not newer either.                         *)
EntrySound(e) ==
    e.whole =>
        /\ DOMAIN e.key = Files
        /\ Closed(e.setup, e.of)
        /\ \A f \in DOMAIN e.of : e.key[f] <= e.of[f]
        /\ \A f \in DOMAIN e.of : IF undoing THEN e.of[f] <= e.key[f] ELSE e.of[f] <= versions[f]

\* What a process has read it read since it began.
Between(c, known) == \A f \in DOMAIN known : begun[c][f] <= known[f] /\ known[f] <= versions[f]

Reading(c) ==
    /\ pc[c] # "idle" => \A f \in Files :
           begun[c][f] <= versions[f] /\ (undoing => versions[f] <= begun[c][f])
    /\ pc[c] = "idle" => DOMAIN fingerprint[c] = {}
    /\ pc[c] \in {"idle", "hash"} => DOMAIN loaded[c] = {}
    /\ Between(c, fingerprint[c]) /\ Between(c, loaded[c])
    /\ pc[c] \notin {"idle", "hash"} /\ caching[c] =>
           /\ DOMAIN fingerprint[c] = Files
           /\ \A f \in DOMAIN loaded[c] : fingerprint[c][f] <= loaded[c][f]

Loading(c) ==
    pc[c] = "load" =>
        /\ Roots(setup[c]) \subseteq DOMAIN loaded[c] \cup pending[c]
        /\ \A f \in DOMAIN loaded[c] : Imports[<<f, loaded[c][f]>>] \subseteq DOMAIN loaded[c] \cup pending[c]

Answering(c) ==
    /\ pc[c] \in {"open", "write", "rename"} => caching[c] /\ answer[c] = loaded[c]
    /\ pc[c] \in {"open", "write", "rename", "answered"} => Closed(setup[c], answer[c])
    /\ pc[c] = "answered" => Between(c, answer[c])
    /\ pc[c] = "write" => handle[c] \in Inodes

Sound(c) == Reading(c) /\ Loading(c) /\ Answering(c)

IInv ==
    /\ TypeInv
    /\ \A c \in Checkers : Sound(c)
    /\ \A i \in Inodes : EntrySound(contents[i])

\* A snapshot is a function from some files to contents.
LEMMA SnapshotIs ==
    ASSUME NEW k
    PROVE  k \in Snapshots <=>
             /\ DOMAIN k \subseteq Files
             /\ k \in [DOMAIN k -> Versions]
  BY DEF Snapshots

\* Reading one more file adds it, and leaves what was known.
LEMMA WithIs ==
    ASSUME NEW k \in Snapshots, NEW f \in Files, NEW v \in Versions
    PROVE  /\ With(k, f, v) \in Snapshots
           /\ DOMAIN With(k, f, v) = DOMAIN k \cup {f}
           /\ With(k, f, v)[f] = v
           /\ \A g \in DOMAIN k : g # f => With(k, f, v)[g] = k[g]
  <1>1. DOMAIN k \subseteq Files /\ k \in [DOMAIN k -> Versions]
    BY SnapshotIs
  <1>2. DOMAIN With(k, f, v) = DOMAIN k \cup {f}
    BY DEF With
  <1>3. \A g \in DOMAIN k \cup {f} : With(k, f, v)[g] = IF g = f THEN v ELSE k[g]
    BY DEF With
  <1>4. With(k, f, v) \in [DOMAIN k \cup {f} -> Versions]
    BY <1>1 DEF With
  <1> QED
    BY <1>1, <1>2, <1>3, <1>4 DEF Snapshots

\* Nothing is known before anything is read.
LEMMA UnreadIs == Unread \in Snapshots /\ DOMAIN Unread = {}
  BY DEF Unread, Snapshots


\* At first nothing is read and nothing cached.
LEMMA InitInv == AllCollected /\ CheckInit => IInv
  <1> SUFFICES ASSUME AllCollected, CheckInit PROVE IInv
    OBVIOUS
  <1>1. 0 \in Versions
    BY TreeConstants DEF Versions
  <1>2. versions \in [Files -> Versions] /\ undoing \in BOOLEAN
    BY <1>1, TreeConstants DEF CheckInit, TreeInit
  <1>3. TypeInv
    BY <1>2, UnreadIs DEF CheckInit, TypeInv, TypeOK, Places, Contents
  <1>4. ASSUME NEW c \in Checkers PROVE Sound(c)
    BY UnreadIs DEF CheckInit, Sound, Reading, Loading, Answering, Between
  <1>5. ASSUME NEW i \in Inodes PROVE EntrySound(contents[i])
    BY DEF CheckInit, EntrySound, Torn
  <1> QED
    BY <1>3, <1>4, <1>5 DEF IInv

\* The record of a process is its own.
Same(d) ==
    /\ pc'[d] = pc[d] /\ setup'[d] = setup[d] /\ begun'[d] = begun[d]
    /\ fingerprint'[d] = fingerprint[d] /\ caching'[d] = caching[d]
    /\ loaded'[d] = loaded[d] /\ pending'[d] = pending[d]
    /\ answer'[d] = answer[d] /\ handle'[d] = handle[d]

\* A step of one process leaves what holds of the others.
LEMMA OthersSound ==
    ASSUME NEW d \in Checkers, Sound(d), UNCHANGED tree, Same(d)
    PROVE  Sound(d)'
  BY DEF Sound, Reading, Loading, Answering, Between, Closed, tree, Same

\* Entries stay sound while nothing is written to the cache.
LEMMA EntriesSound ==
    ASSUME \A i \in Inodes : EntrySound(contents[i]), UNCHANGED <<tree, contents>>
    PROVE  \A i \in Inodes : EntrySound(contents[i])'
  BY DEF EntrySound, Closed, tree

LEMMA BeginCheckInv ==
    ASSUME IInv, NEW c \in Checkers, BeginCheck(c)
    PROVE  IInv'
  <1> USE DEF IInv, TypeInv, TypeOK, BeginCheck, Goto, tree, directory
  <1>1. TypeInv'
    BY DEF Places
  <1>2. Sound(c)'
    BY TreeConstants DEF Sound, Reading, Loading, Answering, Between, Versions
  <1>3. ASSUME NEW d \in Checkers, d # c PROVE Sound(d)'
    BY <1>3, OthersSound DEF Same
  <1> QED
    BY <1>1, <1>2, <1>3, EntriesSound

LEMMA HashInv ==
    ASSUME IInv, AllCollected, NEW c \in Checkers, NEW f \in Files, Hash(c, f)
    PROVE  IInv'
  <1> DEFINE known == With(fingerprint[c], f, versions[f])
  <1>0. fingerprint[c] \in Snapshots /\ versions[f] \in Versions
    BY DEF IInv, TypeInv, TypeOK
  <1>1. /\ known \in Snapshots /\ DOMAIN known = DOMAIN fingerprint[c] \cup {f}
        /\ known[f] = versions[f]
        /\ \A g \in DOMAIN fingerprint[c] : g # f => known[g] = fingerprint[c][g]
    BY <1>0, WithIs
  <1>2. /\ pc[c] = "hash"
        /\ fingerprint' = [fingerprint EXCEPT ![c] = known]
        /\ fingerprint \in [Checkers -> Snapshots]
        /\ UNCHANGED <<tree, directory, pc, setup, begun, caching, loaded, pending, answer, handle>>
    BY DEF Hash, IInv, TypeInv, TypeOK
  <1> HIDE DEF known
  <1>3. fingerprint' \in [Checkers -> Snapshots] /\ fingerprint'[c] = known
    BY <1>1, <1>2
  <1>4. TypeInv'
    BY <1>2, <1>3 DEF IInv, TypeInv, TypeOK, tree, directory
  <1>5. Between(c, known)
    <2>1. ASSUME NEW g \in DOMAIN known PROVE begun[c][g] <= known[g] /\ known[g] <= versions[g]
      <3>1. CASE g = f
        <4>1. begun[c][f] <= versions[f]
          BY <1>2 DEF IInv, Sound, Reading
        <4>2. versions[f] <= versions[f]
          BY <1>0, TreeConstants DEF Versions
        <4> QED
          BY <1>1, <3>1, <4>1, <4>2
      <3>2. CASE g # f
        BY <1>1, <3>2 DEF IInv, Sound, Reading, Between
      <3> QED
        BY <3>1, <3>2
    <2> QED
      BY <2>1 DEF Between
  <1>6. Sound(c)'
    <2>1. Reading(c)'
      BY <1>2, <1>3, <1>5 DEF IInv, Sound, Reading, Between, tree
    <2>2. Loading(c)' /\ Answering(c)'
      BY <1>2 DEF Loading, Answering
    <2> QED
      BY <2>1, <2>2 DEF Sound
  <1>7. ASSUME NEW d \in Checkers, d # c PROVE Sound(d)'
    <2>1. UNCHANGED tree /\ Same(d)
      BY <1>2, <1>7 DEF Same
    <2> QED
      BY <2>1, OthersSound DEF IInv
  <1>8. \A i \in Inodes : EntrySound(contents[i])'
    BY <1>2, EntriesSound DEF IInv, directory
  <1> QED
    BY <1>4, <1>6, <1>7, <1>8 DEF IInv

LEMMA HashFailsInv ==
    ASSUME IInv, NEW c \in Checkers, HashFails(c)
    PROVE  IInv'
  <1> USE DEF IInv, TypeInv, TypeOK, HashFails, StartLoading, Goto, tree, directory
  <1>0. Roots(setup[c]) \subseteq Files
    BY TreeConstants DEF Roots
  <1>1. TypeInv'
    BY <1>0 DEF Places
  <1>2. Sound(c)'
    BY DEF Sound, Reading, Loading, Answering, Between
  <1>3. ASSUME NEW d \in Checkers, d # c PROVE Sound(d)'
    BY <1>3, OthersSound DEF Same
  <1> QED
    BY <1>1, <1>2, <1>3, EntriesSound

\* The entry has the fingerprint of the files, read since this check began: what
\* it was loaded from is not older, and not newer than now.
LEMMA HitAnswers ==
    ASSUME IInv, AllCollected, NEW c \in Checkers, pc[c] = "hash",
           DOMAIN fingerprint[c] = Collected, Hit(c)
    PROVE  /\ contents[cacheFile].of \in Snapshots
           /\ Closed(setup[c], contents[cacheFile].of)
           /\ Between(c, contents[cacheFile].of)
  <1> DEFINE e == contents[cacheFile]
  <1>1. cacheFile \in Inodes /\ e.whole /\ e.setup = setup[c] /\ e.key = fingerprint[c]
    BY DEF IInv, TypeInv, TypeOK, Hit
  <1>2. EntrySound(e)
    BY <1>1 DEF IInv
  <1>3. e \in Contents
    BY <1>1 DEF IInv, TypeInv
  <1> HIDE DEF e
  <1>4. e.of \in Snapshots
    <2>1. e # Torn
      BY <1>1 DEF Torn
    <2> QED
      BY <1>3, <2>1 DEF Contents
  <1>5. Closed(setup[c], e.of)
    BY <1>1, <1>2 DEF EntrySound
  <1>6. ASSUME NEW f \in DOMAIN e.of
        PROVE  begun[c][f] <= e.of[f] /\ e.of[f] <= versions[f]
    <2>1. f \in Files /\ e.of[f] \in Versions
      BY <1>4, SnapshotIs
    <2>2. f \in DOMAIN fingerprint[c] /\ fingerprint[c] \in Snapshots
      BY <2>1, <1>1, <1>2 DEF EntrySound, IInv, TypeInv, TypeOK
    <2>3. fingerprint[c][f] \in Versions /\ versions[f] \in Versions /\ begun[c][f] \in Versions
      BY <2>1, <2>2, SnapshotIs DEF IInv, TypeInv, TypeOK
    <2>4. begun[c][f] <= fingerprint[c][f] /\ fingerprint[c][f] <= versions[f]
      BY <2>2 DEF IInv, Sound, Reading, Between
    <2>5. fingerprint[c][f] <= e.of[f]
      BY <1>1, <1>2 DEF EntrySound
    <2>6. e.of[f] <= fingerprint[c][f] \/ e.of[f] <= versions[f]
      BY <1>1, <1>2 DEF EntrySound
    <2> QED
      BY <2>1, <2>3, <2>4, <2>5, <2>6, TreeConstants DEF Versions
  <1> QED
    BY <1>4, <1>5, <1>6 DEF Between, e

LEMMA LookInv ==
    ASSUME IInv, AllCollected, NEW c \in Checkers, Look(c)
    PROVE  IInv'
  <1> USE DEF IInv, TypeInv, TypeOK, Look, StartLoading, Goto, tree, directory
  <1>0. Roots(setup[c]) \subseteq Files /\ Collected = Files
    BY TreeConstants DEF Roots, Collected, AllCollected
  <1>1. CASE Hit(c)
    <2>1. /\ contents[cacheFile].of \in Snapshots
          /\ Closed(setup[c], contents[cacheFile].of)
          /\ Between(c, contents[cacheFile].of)
      BY <1>1, HitAnswers
    <2>2. /\ pc' = [pc EXCEPT ![c] = "answered"]
          /\ answer' = [answer EXCEPT ![c] = contents[cacheFile].of]
          /\ UNCHANGED <<tree, directory, setup, begun, fingerprint, caching, loaded, pending, handle>>
      BY <1>1
    <2>3. TypeInv'
      BY <2>1, <2>2 DEF Places
    <2>4. Reading(c)' /\ Loading(c)'
      BY <1>0, <2>2 DEF Sound, Reading, Loading, Between
    <2>5. Answering(c)'
      BY <2>1, <2>2 DEF Answering, Between
    <2>6. ASSUME NEW d \in Checkers, d # c PROVE Sound(d)'
      BY <2>2, <2>6, OthersSound DEF Same
    <2> QED
      BY <2>2, <2>3, <2>4, <2>5, <2>6, EntriesSound DEF Sound
  <1>2. CASE ~Hit(c)
    <2>1. /\ pc' = [pc EXCEPT ![c] = "load"]
          /\ pending' = [pending EXCEPT ![c] = Roots(setup[c])]
          /\ UNCHANGED <<tree, directory, setup, begun, fingerprint, caching, loaded, answer, handle>>
      BY <1>2
    <2>2. TypeInv'
      BY <1>0, <2>1 DEF Places
    <2>3. Sound(c)'
      <3>1. pc[c] = "hash" /\ DOMAIN fingerprint[c] = Files /\ DOMAIN loaded[c] = {}
        BY <1>0 DEF Sound, Reading
      <3>2. Reading(c)'
        <4>1. /\ UNCHANGED <<versions, undoing, begun, fingerprint, caching, loaded>>
              /\ pc'[c] = "load" /\ Reading(c)
          BY <2>1 DEF Sound
        <4> HIDE DEF IInv, TypeInv, TypeOK, Look, StartLoading, Goto, tree, directory
        <4> QED
          BY <4>1, <3>1 DEF Reading, Between
      <3>3. Loading(c)'
        BY <2>1, <3>1 DEF Loading
      <3>4. Answering(c)'
        BY <2>1, <3>1 DEF Sound, Answering, Between
      <3> QED
        BY <3>2, <3>3, <3>4 DEF Sound
    <2>4. ASSUME NEW d \in Checkers, d # c PROVE Sound(d)'
      BY <2>1, <2>4, OthersSound DEF Same
    <2> QED
      BY <2>1, <2>2, <2>3, <2>4, EntriesSound
  <1> QED
    BY <1>1, <1>2

\* A module read adds what it imports to what is to be read.
LEMMA LoadInv ==
    ASSUME IInv, NEW c \in Checkers, NEW f \in Files, Load(c, f)
    PROVE  IInv'
  <1> DEFINE known == With(loaded[c], f, versions[f])
             left == Discovered(loaded[c], pending[c], f)
  <1>0. /\ loaded[c] \in Snapshots /\ versions[f] \in Versions /\ pending[c] \subseteq Files
        /\ Imports[<<f, versions[f]>>] \subseteq Files
    BY TreeConstants DEF IInv, TypeInv, TypeOK
  <1>1. /\ known \in Snapshots /\ DOMAIN known = DOMAIN loaded[c] \cup {f}
        /\ known[f] = versions[f]
        /\ \A g \in DOMAIN loaded[c] : g # f => known[g] = loaded[c][g]
    BY <1>0, WithIs
  <1>2. left = (pending[c] \cup Imports[<<f, versions[f]>>]) \ (DOMAIN loaded[c] \cup {f})
    BY DEF Discovered
  <1>3. /\ pc[c] = "load"
        /\ loaded' = [loaded EXCEPT ![c] = known]
        /\ pending' = [pending EXCEPT ![c] = left]
        /\ loaded \in [Checkers -> Snapshots] /\ pending \in [Checkers -> SUBSET Files]
        /\ UNCHANGED <<tree, directory, pc, setup, begun, fingerprint, caching, answer, handle>>
    BY DEF Load, IInv, TypeInv, TypeOK
  <1> HIDE DEF known, left
  <1>4. /\ loaded' \in [Checkers -> Snapshots] /\ loaded'[c] = known
        /\ pending' \in [Checkers -> SUBSET Files] /\ pending'[c] = left
    BY <1>0, <1>1, <1>2, <1>3
  <1>5. TypeInv'
    BY <1>3, <1>4 DEF IInv, TypeInv, TypeOK, tree, directory
  <1>6. begun[c][f] <= versions[f] /\ versions[f] <= versions[f]
    <2>1. begun[c][f] <= versions[f]
      BY <1>3 DEF IInv, Sound, Reading
    <2> QED
      BY <1>0, <2>1, TreeConstants DEF Versions
  <1>7. Between(c, known)
    BY <1>1, <1>6 DEF IInv, Sound, Reading, Between
  <1>8. Reading(c)'
    <2>1. ASSUME caching[c]
          PROVE  DOMAIN fingerprint[c] = Files /\ \A g \in DOMAIN known : fingerprint[c][g] <= known[g]
      <3>1. /\ DOMAIN fingerprint[c] = Files
            /\ \A g \in DOMAIN loaded[c] : fingerprint[c][g] <= loaded[c][g]
        BY <1>3, <2>1 DEF IInv, Sound, Reading
      <3>2. fingerprint[c][f] <= versions[f]
        BY <3>1 DEF IInv, Sound, Reading, Between
      <3> QED
        BY <1>1, <3>1, <3>2
    <2>2. Reading(c)
      BY DEF IInv, Sound
    <2> QED
      BY <1>3, <1>4, <1>7, <2>1, <2>2 DEF Reading, Between, tree
  <1>9. Loading(c)'
    <2>1. /\ Roots(setup[c]) \subseteq DOMAIN loaded[c] \cup pending[c]
          /\ \A g \in DOMAIN loaded[c] : Imports[<<g, loaded[c][g]>>] \subseteq DOMAIN loaded[c] \cup pending[c]
      BY <1>3 DEF IInv, Sound, Loading
    <2>2. DOMAIN loaded[c] \cup pending[c] \subseteq DOMAIN known \cup left
      BY <1>1, <1>2
    <2>3. Imports[<<f, versions[f]>>] \subseteq DOMAIN known \cup left
      BY <1>1, <1>2
    <2>4. \A g \in DOMAIN known : Imports[<<g, known[g]>>] \subseteq DOMAIN known \cup left
      BY <1>1, <2>1, <2>2, <2>3
    <2> QED
      BY <1>3, <1>4, <2>1, <2>2, <2>4 DEF Loading
  <1>10. Answering(c)'
    BY <1>3 DEF Answering
  <1>11. ASSUME NEW d \in Checkers, d # c PROVE Sound(d)'
    <2>1. UNCHANGED tree /\ Same(d)
      BY <1>3, <1>11 DEF Same
    <2> QED
      BY <2>1, OthersSound DEF IInv
  <1>12. \A i \in Inodes : EntrySound(contents[i])'
    BY <1>3, EntriesSound DEF IInv, directory
  <1> QED
    BY <1>5, <1>8, <1>9, <1>10, <1>11, <1>12 DEF IInv, Sound

\* When nothing is left to read, the graph is closed.
LEMMA CheckInv ==
    ASSUME IInv, NEW c \in Checkers, Check(c)
    PROVE  IInv'
  <1> DEFINE next == IF caching[c] THEN "open" ELSE "answered"
  <1>1. /\ pc[c] = "load" /\ pending[c] = {}
        /\ answer' = [answer EXCEPT ![c] = loaded[c]]
        /\ pc' = [pc EXCEPT ![c] = next]
        /\ answer \in [Checkers -> Snapshots] /\ pc \in [Checkers -> Places]
        /\ loaded[c] \in Snapshots
        /\ UNCHANGED <<tree, directory, setup, begun, fingerprint, caching, loaded, pending, handle>>
    BY DEF Check, Goto, IInv, TypeInv, TypeOK
  <1>2. /\ answer' \in [Checkers -> Snapshots] /\ answer'[c] = loaded[c]
        /\ pc' \in [Checkers -> Places] /\ pc'[c] = next
    BY <1>1 DEF Places
  <1>3. TypeInv'
    BY <1>1, <1>2 DEF IInv, TypeInv, TypeOK, tree, directory
  <1>4. Closed(setup[c], loaded[c])
    BY <1>1 DEF IInv, Sound, Loading, Closed
  <1>5. Reading(c)
    BY DEF IInv, Sound
  <1>6. Reading(c)'
    BY <1>1, <1>2, <1>5 DEF Reading, Between, tree
  <1>7. Loading(c)'
    BY <1>2 DEF Loading
  <1>8. Answering(c)'
    BY <1>1, <1>2, <1>4, <1>5 DEF Reading, Answering, Between, Closed, tree
  <1>9. ASSUME NEW d \in Checkers, d # c PROVE Sound(d)'
    <2>1. UNCHANGED tree /\ Same(d)
      BY <1>1, <1>9 DEF Same
    <2> QED
      BY <2>1, OthersSound DEF IInv
  <1>10. \A i \in Inodes : EntrySound(contents[i])'
    BY <1>1, EntriesSound DEF IInv, directory
  <1> QED
    BY <1>3, <1>6, <1>7, <1>8, <1>9, <1>10 DEF IInv, Sound

\* An empty or mixed up file is no entry.
LEMMA TornSound == EntrySound(Torn) /\ EntrySound(Torn)' /\ Torn \in Contents
  BY DEF EntrySound, Torn, Contents

\* What a process knows of its own check is left alone by the steps that write.
LEMMA WritingSound ==
    ASSUME NEW c \in Checkers, Sound(c), UNCHANGED tree,
           UNCHANGED <<setup, begun, fingerprint, caching, loaded, pending, answer>>,
           pc[c] \in {"open", "write", "rename"},
           \/ pc'[c] \in {"rename", "answered"}
           \/ pc'[c] = "write" /\ handle'[c] \in Inodes
    PROVE  Sound(c)'
  <1>1. Reading(c)'
    BY DEF Sound, Reading, Between, tree
  <1>2. Loading(c)'
    BY DEF Loading
  <1>3. Answering(c)'
    BY DEF Sound, Answering, Reading, Between, Closed, tree
  <1> QED
    BY <1>1, <1>2, <1>3 DEF Sound

LEMMA OpenInv ==
    ASSUME IInv, NEW c \in Checkers, Open(c)
    PROVE  IInv'
  <1>1. PICK i \in Inodes : /\ temporary' = i
                            /\ handle' = [handle EXCEPT ![c] = i]
                            /\ contents' = [contents EXCEPT ![i] = Torn]
    BY DEF Open
  <1>2. /\ pc[c] = "open" /\ pc' = [pc EXCEPT ![c] = "write"]
        /\ pc \in [Checkers -> Places] /\ handle \in [Checkers -> Inodes \cup {NoFile}]
        /\ contents \in [Inodes -> Contents]
        /\ UNCHANGED <<tree, setup, begun, fingerprint, caching, loaded, pending, answer, cacheFile>>
    BY DEF Open, Goto, IInv, TypeInv, TypeOK
  <1>3. TypeInv'
    BY <1>1, <1>2, TornSound DEF IInv, TypeInv, TypeOK, tree, Places
  <1>4. Sound(c)'
    <2>1. pc'[c] = "write" /\ handle'[c] \in Inodes
      BY <1>1, <1>2
    <2> QED
      BY <1>2, <2>1, WritingSound DEF IInv
  <1>5. ASSUME NEW d \in Checkers, d # c PROVE Sound(d)'
    <2>1. UNCHANGED tree /\ Same(d)
      BY <1>1, <1>2, <1>5 DEF Same
    <2> QED
      BY <2>1, OthersSound DEF IInv
  <1>6. ASSUME NEW j \in Inodes PROVE EntrySound(contents[j])'
    <2>1. CASE j = i
      BY <1>1, <1>2, <2>1 DEF EntrySound, Torn
    <2>2. CASE j # i
      BY <1>1, <1>2, <2>2 DEF IInv, EntrySound, Closed, tree
    <2> QED
      BY <2>1, <2>2
  <1> QED
    BY <1>3, <1>4, <1>5, <1>6 DEF IInv

\* What is written is sound: it was loaded after it was fingerprinted.
LEMMA EntryWritten ==
    ASSUME IInv, NEW c \in Checkers, pc[c] = "write"
    PROVE  LET e == Entry(setup[c], fingerprint[c], answer[c]) IN e \in Contents /\ EntrySound(e)
  <1> DEFINE e == Entry(setup[c], fingerprint[c], answer[c])
  <1>1. /\ setup[c] \in Setups /\ fingerprint[c] \in Snapshots /\ answer[c] \in Snapshots
        /\ versions \in [Files -> Versions] /\ begun[c] \in [Files -> Versions]
    BY DEF IInv, TypeInv, TypeOK
  <1>2. /\ Reading(c) /\ caching[c] /\ answer[c] = loaded[c] /\ Closed(setup[c], answer[c])
    BY DEF IInv, Sound, Answering
  <1>3. e \in Contents
    BY <1>1 DEF Entry, Contents
  <1>4. DOMAIN fingerprint[c] = Files
    BY <1>2 DEF Reading
  <1>5. ASSUME NEW f \in DOMAIN answer[c]
        PROVE  /\ fingerprint[c][f] <= answer[c][f]
               /\ IF undoing THEN answer[c][f] <= fingerprint[c][f] ELSE answer[c][f] <= versions[f]
    <2>1. /\ f \in Files /\ answer[c][f] \in Versions /\ fingerprint[c][f] \in Versions
          /\ versions[f] \in Versions /\ begun[c][f] \in Versions
      BY <1>1, <1>4, SnapshotIs
    <2>2. fingerprint[c][f] <= answer[c][f] /\ answer[c][f] <= versions[f] /\ begun[c][f] <= fingerprint[c][f]
      BY <1>2, <1>4, <2>1 DEF Reading, Between
    <2>3. undoing => versions[f] <= begun[c][f]
      BY <1>2, <2>1 DEF Reading
    <2> QED
      BY <2>1, <2>2, <2>3, TreeConstants DEF Versions
  <1>6. EntrySound(e)
    BY <1>2, <1>4, <1>5 DEF Entry, EntrySound
  <1> QED
    BY <1>3, <1>6

LEMMA WriteInv ==
    ASSUME IInv, NEW c \in Checkers, Write(c)
    PROVE  IInv'
  <1>1. /\ pc[c] = "write" /\ pc' = [pc EXCEPT ![c] = "rename"]
        /\ pc \in [Checkers -> Places] /\ contents \in [Inodes -> Contents]
        /\ UNCHANGED <<tree, setup, begun, fingerprint, caching, loaded, pending, answer, handle, cacheFile, temporary>>
    BY DEF Write, Goto, IInv, TypeInv, TypeOK
  <1>2. PICK bytes \in Contents :
          /\ EntrySound(bytes)
          /\ contents' \in {contents, [contents EXCEPT ![handle[c]] = bytes]}
    <2>1. CASE handle[c] \in {cacheFile, temporary}
      BY <1>1, <2>1, EntryWritten, TornSound DEF Write
    <2>2. CASE handle[c] \notin {cacheFile, temporary}
      BY <2>2, TornSound DEF Write
    <2> QED
      BY <2>1, <2>2
  <1>3. TypeInv'
    <2>1. contents' \in [Inodes -> Contents]
      BY <1>1, <1>2
    <2> QED
      BY <1>1, <2>1 DEF IInv, TypeInv, TypeOK, tree, Places
  <1>4. Sound(c)'
    <2>1. pc'[c] = "rename"
      BY <1>1
    <2> QED
      BY <1>1, <2>1, WritingSound DEF IInv
  <1>5. ASSUME NEW d \in Checkers, d # c PROVE Sound(d)'
    <2>1. UNCHANGED tree /\ Same(d)
      BY <1>1, <1>5 DEF Same
    <2> QED
      BY <2>1, OthersSound DEF IInv
  <1>6. ASSUME NEW j \in Inodes PROVE EntrySound(contents[j])'
    <2>1. contents'[j] \in {contents[j], bytes}
      BY <1>1, <1>2
    <2>2. EntrySound(contents[j])
      BY DEF IInv
    <2> QED
      BY <1>1, <1>2, <2>1, <2>2 DEF EntrySound, Closed, tree
  <1> QED
    BY <1>3, <1>4, <1>5, <1>6 DEF IInv

LEMMA RenameInv ==
    ASSUME IInv, NEW c \in Checkers, Rename(c)
    PROVE  IInv'
  <1>1. /\ pc[c] = "rename" /\ pc' = [pc EXCEPT ![c] = "answered"]
        /\ handle' = [handle EXCEPT ![c] = NoFile]
        /\ pc \in [Checkers -> Places] /\ handle \in [Checkers -> Inodes \cup {NoFile}]
        /\ contents \in [Inodes -> Contents]
        /\ cacheFile \in Inodes \cup {NoFile} /\ temporary \in Inodes \cup {NoFile}
        /\ UNCHANGED <<tree, setup, begun, fingerprint, caching, loaded, pending, answer>>
    BY DEF Rename, Goto, IInv, TypeInv, TypeOK
  <1>2. /\ cacheFile' \in Inodes \cup {NoFile} /\ temporary' \in Inodes \cup {NoFile}
        /\ contents' \in [Inodes -> Contents]
        /\ \A j \in Inodes : contents'[j] \in {contents[j], Torn}
    <2>1. CASE temporary = NoFile
      BY <1>1, <2>1 DEF Rename, directory
    <2>2. CASE temporary # NoFile
      <3>1. /\ cacheFile' = temporary /\ temporary' = NoFile
            /\ contents' = [i \in Inodes |-> IF i = temporary THEN contents[i] ELSE Torn]
        BY <2>2 DEF Rename
      <3> QED
        BY <1>1, <3>1, TornSound
    <2> QED
      BY <2>1, <2>2
  <1>3. TypeInv'
    BY <1>1, <1>2 DEF IInv, TypeInv, TypeOK, tree, Places
  <1>4. Sound(c)'
    <2>1. pc'[c] = "answered"
      BY <1>1
    <2> QED
      BY <1>1, <2>1, WritingSound DEF IInv
  <1>5. ASSUME NEW d \in Checkers, d # c PROVE Sound(d)'
    <2>1. UNCHANGED tree /\ Same(d)
      BY <1>1, <1>5 DEF Same
    <2> QED
      BY <2>1, OthersSound DEF IInv
  <1>6. ASSUME NEW j \in Inodes PROVE EntrySound(contents[j])'
    <2>1. contents'[j] = Torn \/ contents'[j] = contents[j]
      BY <1>2
    <2>2. CASE contents'[j] = Torn
      BY <2>2 DEF EntrySound, Torn
    <2>3. CASE contents'[j] = contents[j]
      BY <1>1, <2>3 DEF IInv, EntrySound, Closed, tree
    <2> QED
      BY <2>1, <2>2, <2>3
  <1> QED
    BY <1>3, <1>4, <1>5, <1>6 DEF IInv

LEMMA WriteFailsInv ==
    ASSUME IInv, NEW c \in Checkers, WriteFails(c)
    PROVE  IInv'
  <1>1. /\ pc[c] \in {"open", "write"} /\ pc' = [pc EXCEPT ![c] = "answered"]
        /\ handle' = [handle EXCEPT ![c] = NoFile]
        /\ pc \in [Checkers -> Places] /\ handle \in [Checkers -> Inodes \cup {NoFile}]
        /\ UNCHANGED <<tree, directory, setup, begun, fingerprint, caching, loaded, pending, answer>>
    BY DEF WriteFails, Goto, IInv, TypeInv, TypeOK
  <1>2. TypeInv'
    BY <1>1 DEF IInv, TypeInv, TypeOK, tree, directory, Places
  <1>3. Sound(c)'
    <2>1. pc'[c] = "answered"
      BY <1>1
    <2> QED
      BY <1>1, <2>1, WritingSound DEF IInv
  <1>4. ASSUME NEW d \in Checkers, d # c PROVE Sound(d)'
    <2>1. UNCHANGED tree /\ Same(d)
      BY <1>1, <1>4 DEF Same
    <2> QED
      BY <2>1, OthersSound DEF IInv
  <1>5. \A i \in Inodes : EntrySound(contents[i])'
    BY <1>1, EntriesSound DEF IInv, directory
  <1> QED
    BY <1>2, <1>3, <1>4, <1>5 DEF IInv

LEMMA ExitInv ==
    ASSUME IInv, NEW c \in Checkers, Exit(c)
    PROVE  IInv'
  <1>1. /\ pc' = [pc EXCEPT ![c] = "idle"]
        /\ fingerprint' = [fingerprint EXCEPT ![c] = Unread]
        /\ caching' = [caching EXCEPT ![c] = FALSE]
        /\ loaded' = [loaded EXCEPT ![c] = Unread]
        /\ pending' = [pending EXCEPT ![c] = {}]
        /\ answer' = [answer EXCEPT ![c] = Unread]
        /\ handle' = [handle EXCEPT ![c] = NoFile]
        /\ begun' = [begun EXCEPT ![c] = versions]
        /\ UNCHANGED <<tree, directory, setup>>
    BY DEF Exit, Goto
  <1>2. TypeOK
    BY DEF IInv, TypeInv
  <1>3. TypeInv'
    BY <1>1, <1>2, UnreadIs DEF IInv, TypeInv, TypeOK, tree, directory, Places
  <1>4. Sound(c)'
    <2>1. pc'[c] = "idle" /\ fingerprint'[c] = Unread /\ loaded'[c] = Unread
      BY <1>1, <1>2 DEF TypeOK
    <2> QED
      BY <2>1, UnreadIs DEF Sound, Reading, Loading, Answering, Between
  <1>5. ASSUME NEW d \in Checkers, d # c PROVE Sound(d)'
    <2>1. UNCHANGED tree /\ Same(d)
      BY <1>1, <1>2, <1>5 DEF Same, TypeOK
    <2> QED
      BY <2>1, OthersSound DEF IInv
  <1>6. \A i \in Inodes : EntrySound(contents[i])'
    BY <1>1, EntriesSound DEF IInv, directory
  <1> QED
    BY <1>3, <1>4, <1>5, <1>6 DEF IInv

\* Contents only move on, or nobody is reading them.
LEMMA EditSourcesInv ==
    ASSUME IInv, NEW f \in Files, NEW v \in Versions, EditSources(f, v)
    PROVE  IInv'
  <1>1. /\ versions \in [Files -> Versions] /\ versions' = [versions EXCEPT ![f] = v]
        /\ undoing' = undoing /\ undoing \in BOOLEAN
        /\ UNCHANGED <<directory, pc, setup, begun, fingerprint, caching, loaded, pending, answer, handle>>
        /\ undoing \/ v > versions[f]
        /\ undoing => \A c \in Checkers : pc[c] = "idle"
    BY DEF EditSources, Save, checking, IInv, TypeInv, TypeOK
  <1>2. TypeInv'
    BY <1>1 DEF IInv, TypeInv, TypeOK, directory
  <1>3. ASSUME ~undoing, NEW g \in Files, NEW w \in Versions, w <= versions[g] PROVE w <= versions'[g]
    <2>1. versions[g] \in Versions /\ versions'[g] \in Versions
      BY <1>1
    <2>2. versions'[g] = versions[g] \/ versions'[g] > versions[g]
      BY <1>1, <1>3
    <2> QED
      BY <1>3, <2>1, <2>2, TreeConstants DEF Versions
  <1>4. ASSUME ~undoing, NEW c \in Checkers, NEW known \in Snapshots, Between(c, known)
        PROVE  Between(c, known)'
    <2>1. \A g \in DOMAIN known : g \in Files /\ known[g] \in Versions
      BY SnapshotIs
    <2> QED
      BY <1>1, <1>3, <1>4, <2>1 DEF Between
  <1>5. ASSUME NEW c \in Checkers PROVE Sound(c)'
    <2>0. /\ Sound(c) /\ fingerprint[c] \in Snapshots /\ loaded[c] \in Snapshots /\ answer[c] \in Snapshots
          /\ begun[c] \in [Files -> Versions]
      BY DEF IInv, TypeInv, TypeOK
    <2>1. Loading(c)'
      BY <1>1, <2>0 DEF Sound, Loading
    <2>2. CASE undoing
      <3>1. pc[c] = "idle" /\ DOMAIN fingerprint[c] = {} /\ DOMAIN loaded[c] = {}
        BY <1>1, <2>0, <2>2 DEF Sound, Reading
      <3>2. Reading(c)' /\ Answering(c)'
        BY <1>1, <3>1 DEF Reading, Answering, Between
      <3> QED
        BY <2>1, <3>2 DEF Sound
    <2>3. CASE ~undoing
      <3>1. Between(c, fingerprint[c])' /\ Between(c, loaded[c])'
        BY <1>1, <1>4, <2>0, <2>3 DEF Sound, Reading, Between
      <3>2. pc[c] # "idle" => \A g \in Files : begun[c][g] <= versions'[g]
        BY <1>3, <2>0, <2>3 DEF Sound, Reading
      <3>3. Reading(c)'
        BY <1>1, <2>0, <2>3, <3>1, <3>2 DEF Sound, Reading
      <3>4. pc[c] = "answered" => Between(c, answer[c])'
        BY <1>1, <1>4, <2>0, <2>3 DEF Sound, Answering, Between
      <3>5. Answering(c)'
        BY <1>1, <2>0, <3>4 DEF Sound, Answering, Closed, Between
      <3> QED
        BY <2>1, <3>3, <3>5 DEF Sound
    <2> QED
      BY <2>2, <2>3
  <1>6. ASSUME NEW i \in Inodes PROVE EntrySound(contents[i])'
    <2>1. EntrySound(contents[i]) /\ contents[i] \in Contents /\ contents'[i] = contents[i]
      BY <1>1 DEF IInv, TypeInv, directory
    <2>2. CASE undoing
      BY <1>1, <2>1, <2>2 DEF EntrySound, Closed
    <2>3. CASE ~undoing
      <3>1. SUFFICES ASSUME contents[i].whole PROVE EntrySound(contents[i])'
        BY <2>1 DEF EntrySound
      <3> DEFINE e == contents[i]
      <3>2. e # Torn
        BY <3>1 DEF Torn
      <3>3. e.of \in Snapshots
        BY <2>1, <3>2 DEF Contents
      <3>4. \A g \in DOMAIN e.of : g \in Files /\ e.of[g] \in Versions
        BY <3>3, SnapshotIs
      <3>5. \A g \in DOMAIN e.of : e.of[g] <= versions'[g]
        BY <1>3, <2>1, <2>3, <3>1, <3>4 DEF EntrySound
      <3> QED
        BY <1>1, <2>1, <2>3, <3>1, <3>5 DEF EntrySound, Closed
    <2> QED
      BY <2>2, <2>3
  <1> QED
    BY <1>2, <1>5, <1>6 DEF IInv

\* Where nothing moves, everything stays sound.
LEMMA StutterInv == IInv /\ UNCHANGED checkVars => IInv'
  <1> SUFFICES ASSUME IInv, UNCHANGED checkVars PROVE IInv'
    OBVIOUS
  <1>1. UNCHANGED <<tree, directory, pc, setup, begun, fingerprint, caching, loaded, pending, answer, handle>>
    BY DEF checkVars, checking
  <1>2. TypeInv'
    BY <1>1 DEF IInv, TypeInv, TypeOK, tree, directory
  <1>3. ASSUME NEW d \in Checkers PROVE Sound(d)'
    BY <1>1, OthersSound DEF IInv, Same
  <1>4. \A i \in Inodes : EntrySound(contents[i])'
    BY <1>1, EntriesSound DEF IInv, directory
  <1> QED
    BY <1>2, <1>3, <1>4 DEF IInv

LEMMA NextInv == AllCollected /\ IInv /\ [CheckNext]_checkVars => IInv'
  <1> SUFFICES ASSUME AllCollected, IInv, [CheckNext]_checkVars PROVE IInv'
    OBVIOUS
  <1>1. ASSUME NEW c \in Checkers, CheckStep(c) PROVE IInv'
    <2>1. CASE BeginCheck(c)
      BY <2>1, BeginCheckInv
    <2>2. CASE HashFails(c)
      BY <2>2, HashFailsInv
    <2>3. CASE Look(c)
      BY <2>3, LookInv
    <2>4. CASE Check(c)
      BY <2>4, CheckInv
    <2>5. CASE Open(c)
      BY <2>5, OpenInv
    <2>6. CASE Write(c)
      BY <2>6, WriteInv
    <2>7. CASE Rename(c)
      BY <2>7, RenameInv
    <2>8. CASE WriteFails(c)
      BY <2>8, WriteFailsInv
    <2>9. CASE Exit(c)
      BY <2>9, ExitInv
    <2>10. CASE \E f \in Files : Hash(c, f)
      BY <2>10, HashInv
    <2>11. CASE \E f \in Files : Load(c, f)
      BY <2>11, LoadInv
    <2> QED
      BY <1>1, <2>1, <2>2, <2>3, <2>4, <2>5, <2>6, <2>7, <2>8, <2>9, <2>10, <2>11 DEF CheckStep
  <1>2. CASE \E f \in Files, v \in Versions : EditSources(f, v)
    BY <1>2, EditSourcesInv
  <1>3. CASE UNCHANGED checkVars
    BY <1>3, StutterInv
  <1> QED
    BY <1>1, <1>2, <1>3 DEF CheckNext

\* Answers are current whenever the invariant holds.
LEMMA InvAnswers == IInv => AnswersCurrent
  BY DEF IInv, Sound, Answering, Between, AnswersCurrent

\* A behaviour of both commands is one of checks, or leaves them alone.
LEMMA BothAreChecks == (Init => CheckInit) /\ ([Next]_vars => [CheckNext]_checkVars)
  <1>1. Init => CheckInit
    BY DEF Init
  <1>2. ASSUME Next PROVE [CheckNext]_checkVars
    <2>1. CASE Checking
      BY <2>1 DEF Checking, CheckNext
    <2>2. CASE Building
      <3>1. UNCHANGED tree
        BY <2>2 DEF Building, BuildStep, Meddle, StartBuild, LoadModule, Reuse, Miss, Reject, Emit,
                    WriteCompanions, WriteBuildCache, Leave
      <3> QED
        BY <2>2, <3>1 DEF Building, checkVars
    <2>3. CASE Editing
      BY <2>3 DEF Editing, CheckNext
    <2> QED
      BY <1>2, <2>1, <2>2, <2>3 DEF Next
  <1>3. UNCHANGED vars => UNCHANGED checkVars
    BY DEF vars, checkVars
  <1> QED
    BY <1>1, <1>2, <1>3

\* The variables of a check keep their types: what is fingerprinted, loaded and
\* answered are contents of files, and every file of the cache directory holds
\* a whole entry or none.
THEOREM TypeCorrect == AllCollected => (CheckSpec => []TypeInv)
  <1> SUFFICES ASSUME AllCollected PROVE CheckSpec => []TypeInv
    OBVIOUS
  <1>0. CheckInit => IInv
    BY InitInv
  <1>1. IInv => TypeInv
    BY DEF IInv
  <1>2. IInv /\ [CheckNext]_checkVars => IInv'
    BY NextInv
  <1> QED
    BY <1>0, <1>1, <1>2, PTL DEF CheckSpec

\* For any number of processes, files, setups and edits, at any point of each
\* other's checks: every answer of `tn check` is for the module graph of its
\* entry, with every file as it was at some moment since that check began - if
\* all files of a graph are among those that are fingerprinted.
THEOREM ChecksAnswerCurrent == AllCollected => (CheckSpec => []AnswersCurrent)
  <1> SUFFICES ASSUME AllCollected PROVE CheckSpec => []AnswersCurrent
    OBVIOUS
  <1>0. CheckInit => IInv
    BY InitInv
  <1>1. IInv /\ [CheckNext]_checkVars => IInv'
    BY NextInv
  <1> QED
    BY <1>0, <1>1, InvAnswers, PTL DEF CheckSpec

\* The same, while `tn build` works on the same files.
THEOREM AnswersCurrentBesideBuilds == AllCollected => (Spec => []AnswersCurrent)
  <1> SUFFICES ASSUME AllCollected PROVE Spec => []AnswersCurrent
    OBVIOUS
  <1>0. CheckInit => IInv
    BY InitInv
  <1>1. IInv /\ [CheckNext]_checkVars => IInv'
    BY NextInv
  <1> QED
    BY <1>0, <1>1, InvAnswers, BothAreChecks, PTL DEF Spec

-----------------------------------------------------------------------------
(* Builds.  The stamp of a product tells which writing made it, so that a    *)
(* record and a product that agree on it are of the same build.             *)

BuildPlaces == {"idle", "look", "load", "companions", "record", "built", "reused"}
Jobs == [pc : BuildPlaces, setup : Setups \cup {NoSetup}, loaded : Snapshots, pending : SUBSET Files]

Unbroken(modules) == \A f \in DOMAIN modules : <<f, modules[f]>> \notin Broken
Whole(s, modules) ==
    /\ s \in Setups /\ modules \in Snapshots
    /\ Closed(s, modules) /\ Unbroken(modules)

BuildTypeInv ==
    /\ versions \in [Files -> Versions]
    /\ job \in Jobs
    /\ writes \in Nat
    /\ settled \in Setups \cup {NoSetup}

\* The build that runs: nothing it has read has changed, and past the
\* emission the product is its own.
JobSound ==
    /\ IF job.pc = "idle" THEN DOMAIN job.loaded = {} ELSE job.setup \in Setups
    /\ \A f \in DOMAIN job.loaded : job.loaded[f] = versions[f]
    /\ job.pc = "look" => job.pending = Roots(job.setup) /\ job.loaded = Unread
    /\ job.pc = "load" =>
          /\ Roots(job.setup) \subseteq DOMAIN job.loaded \cup job.pending
          /\ \A f \in DOMAIN job.loaded :
                Imports[<<f, job.loaded[f]>>] \subseteq DOMAIN job.loaded \cup job.pending
          /\ settled # job.setup
    /\ job.pc \in {"companions", "record", "built"} =>
          /\ Whole(job.setup, job.loaded)
          /\ product = Product(job.setup, job.loaded, writes)
    /\ job.pc \in {"companions", "record"} => settled = NoSetup
    /\ job.pc \in {"record", "built"} /\ HasCompanion[job.setup] => companion = Companion(job.loaded)

\* What the record says of the product that bears its stamp.
RecordSound ==
    /\ product # Absent => product.stamp \in Nat \ {0} /\ product.stamp <= writes
    /\ record # Absent =>
          /\ Whole(record.setup, record.sources)
          /\ record.metadata \in Nat /\ record.metadata <= writes
          /\ HasCompanion[record.setup] => record.companion = Companion(record.sources)
          /\ product # Absent /\ product.stamp = record.metadata =>
                product = Product(record.setup, record.sources, record.metadata)

CurrentFor(s) ==
    /\ record # Absent /\ record.setup = s
    /\ product # Absent /\ Metadata(product) = record.metadata
    /\ SourcesCurrent
    /\ HasCompanion[record.setup] => companion = record.companion

ReuseSound ==
    /\ job.pc = "reused" => CurrentFor(job.setup)
    /\ settled # NoSetup => CurrentFor(settled)

BuildInv == BuildTypeInv /\ JobSound /\ RecordSound /\ ReuseSound

BuildNext ==
    \/ BuildStep
    \/ Meddle
    \/ \E f \in Files, v \in Versions : EditBetweenBuilds(f, v)

\* The kinds of file can be told apart.
LEMMA KindsDiffer ==
    /\ \A n : Garbage(n) # Absent /\ Garbage(n).stamp = n
    /\ \A s, modules, n : /\ Product(s, modules, n) # Absent
                          /\ Product(s, modules, n).stamp = n
    /\ \A s, n, file, known :
          [setup |-> s, metadata |-> n, companion |-> file, sources |-> known] # Absent
  <1>1. \A n : Garbage(n) # Absent /\ Garbage(n).stamp = n
    BY DEF Garbage, Absent
  <1>2. \A s, modules, n : Product(s, modules, n) # Absent /\ Product(s, modules, n).stamp = n
    BY DEF Product, Absent
  <1>3. ASSUME NEW s, NEW n, NEW file, NEW known
        PROVE  [setup |-> s, metadata |-> n, companion |-> file, sources |-> known] # Absent
    <2> DEFINE r == [setup |-> s, metadata |-> n, companion |-> file, sources |-> known]
    <2>1. "setup" \in DOMAIN r
      OBVIOUS
    <2>2. "setup" \notin DOMAIN Absent
      BY DEF Absent
    <2> QED
      BY <2>1, <2>2
  <1> QED
    BY <1>1, <1>2, <1>3

LEMMA BuildInitInv == TreeInit /\ BuildInit => BuildInv
  <1> SUFFICES ASSUME TreeInit, BuildInit PROVE BuildInv
    OBVIOUS
  <1>1. 0 \in Versions
    BY TreeConstants DEF Versions
  <1>2. BuildTypeInv
    BY <1>1, UnreadIs DEF TreeInit, BuildInit, BuildTypeInv, Idle, Job, Jobs, BuildPlaces
  <1>3. JobSound /\ ReuseSound
    BY UnreadIs DEF BuildInit, JobSound, ReuseSound, Idle, Job
  <1>4. RecordSound
    BY DEF BuildInit, RecordSound
  <1> QED
    BY <1>2, <1>3, <1>4 DEF BuildInv

\* What the record tells stays true while neither it nor the product changes.
LEMMA RecordStays ==
    ASSUME RecordSound, UNCHANGED <<product, record, writes>>
    PROVE  RecordSound'
  BY DEF RecordSound, Whole, Closed, Unbroken

LEMMA StartBuildInv ==
    ASSUME BuildInv, NEW s \in Setups, StartBuild(s)
    PROVE  BuildInv'
  <1>1. Roots(s) \subseteq Files
    BY TreeConstants DEF Roots
  <1>2. /\ job' = Job("look", s, Unread, Roots(s))
        /\ UNCHANGED <<tree, output>>
    BY DEF StartBuild
  <1>3. BuildTypeInv'
    BY <1>1, <1>2, UnreadIs DEF BuildInv, BuildTypeInv, Job, Jobs, BuildPlaces, tree, output
  <1>4. JobSound'
    BY <1>2, UnreadIs DEF JobSound, Job
  <1>5. ReuseSound'
    BY <1>2 DEF BuildInv, ReuseSound, CurrentFor, SourcesCurrent, Metadata, Job, tree, output
  <1> QED
    BY <1>2, <1>3, <1>4, <1>5, RecordStays DEF BuildInv, output

LEMMA ReuseInv ==
    ASSUME BuildInv, Reuse
    PROVE  BuildInv'
  <1>1. /\ job \in Jobs /\ job.pc = "look" /\ CurrentFor(job.setup)
        /\ job' = [job EXCEPT !.pc = "reused"] /\ settled' = job.setup
        /\ UNCHANGED <<tree, product, companion, record, writes>>
    BY DEF BuildInv, BuildTypeInv, Reuse, At, Turn, BuildCacheIsCurrent, CurrentFor
  <1>2. /\ job'.pc = "reused" /\ job'.setup = job.setup /\ job'.loaded = job.loaded
        /\ job' \in Jobs /\ job.setup \in Setups
    BY <1>1 DEF Jobs, BuildPlaces, BuildInv, JobSound
  <1>3. BuildTypeInv'
    BY <1>1, <1>2 DEF BuildInv, BuildTypeInv, tree
  <1>4. JobSound'
    BY <1>1, <1>2 DEF BuildInv, JobSound, tree
  <1>5. CurrentFor(job.setup)'
    BY <1>1, <1>2 DEF CurrentFor, SourcesCurrent, Metadata, tree
  <1>6. ReuseSound'
    BY <1>1, <1>2, <1>5 DEF ReuseSound
  <1> QED
    BY <1>1, <1>3, <1>4, <1>6, RecordStays DEF BuildInv

LEMMA MissInv ==
    ASSUME BuildInv, Miss
    PROVE  BuildInv'
  <1>1. /\ job \in Jobs /\ job.pc = "look" /\ ~CurrentFor(job.setup)
        /\ job' = [job EXCEPT !.pc = "load"]
        /\ UNCHANGED <<tree, output>>
    BY DEF BuildInv, BuildTypeInv, Miss, At, Turn, BuildCacheIsCurrent, CurrentFor
  <1>2. /\ job'.pc = "load" /\ job'.setup = job.setup /\ job'.loaded = job.loaded
        /\ job'.pending = job.pending /\ job' \in Jobs
    BY <1>1 DEF Jobs, BuildPlaces
  <1>3. BuildTypeInv'
    BY <1>1, <1>2 DEF BuildInv, BuildTypeInv, tree, output
  <1>4. settled # job.setup
    BY <1>1, BuildConstants DEF BuildInv, JobSound, ReuseSound
  <1>5. JobSound'
    BY <1>1, <1>2, <1>4, UnreadIs DEF BuildInv, JobSound, tree, output
  <1>6. ReuseSound'
    BY <1>1, <1>2 DEF BuildInv, ReuseSound, CurrentFor, SourcesCurrent, Metadata, tree, output
  <1> QED
    BY <1>1, <1>3, <1>5, <1>6, RecordStays DEF BuildInv, output

LEMMA LoadModuleInv ==
    ASSUME BuildInv, NEW f \in Files, LoadModule(f)
    PROVE  BuildInv'
  <1> DEFINE known == With(job.loaded, f, versions[f])
             left == Discovered(job.loaded, job.pending, f)
  <1>1. /\ job \in Jobs /\ job.pc = "load" /\ f \in job.pending
        /\ job' = [job EXCEPT !.loaded = known, !.pending = left]
        /\ UNCHANGED <<tree, output>>
    BY DEF BuildInv, BuildTypeInv, LoadModule, At
  <1>2. /\ job.loaded \in Snapshots /\ versions[f] \in Versions /\ job.pending \subseteq Files
        /\ job.setup \in Setups
    BY <1>1 DEF BuildInv, BuildTypeInv, JobSound, Jobs
  <1>3. /\ known \in Snapshots /\ DOMAIN known = DOMAIN job.loaded \cup {f}
        /\ known[f] = versions[f]
        /\ \A g \in DOMAIN job.loaded : g # f => known[g] = job.loaded[g]
    BY <1>2, WithIs
  <1>4. left = (job.pending \cup Imports[<<f, versions[f]>>]) \ (DOMAIN job.loaded \cup {f})
    BY DEF Discovered
  <1> HIDE DEF known, left
  <1>5. left \subseteq Files
    BY <1>2, <1>4, TreeConstants
  <1>6. /\ job'.pc = "load" /\ job'.setup = job.setup /\ job'.loaded = known
        /\ job'.pending = left /\ job' \in Jobs
    BY <1>1, <1>3, <1>5 DEF Jobs
  <1>7. BuildTypeInv'
    BY <1>1, <1>6 DEF BuildInv, BuildTypeInv, tree, output
  <1>8. \A g \in DOMAIN known : known[g] = versions[g]
    BY <1>3 DEF BuildInv, JobSound
  <1>9. DOMAIN job.loaded \cup job.pending \subseteq DOMAIN known \cup left
    BY <1>3, <1>4
  <1>10. Imports[<<f, versions[f]>>] \subseteq DOMAIN known \cup left
    BY <1>3, <1>4
  <1>11. ASSUME NEW g \in DOMAIN known
         PROVE  Imports[<<g, known[g]>>] \subseteq DOMAIN known \cup left
    <2>1. CASE g = f
      BY <2>1, <1>3, <1>10
    <2>2. CASE g # f
      <3>1. g \in DOMAIN job.loaded /\ known[g] = job.loaded[g]
        BY <2>2, <1>3, <1>11
      <3>2. Imports[<<g, job.loaded[g]>>] \subseteq DOMAIN job.loaded \cup job.pending
        BY <3>1, <1>1 DEF BuildInv, JobSound
      <3> QED
        BY <3>1, <3>2, <1>9
    <2> QED
      BY <2>1, <2>2
  <1>12. Roots(job.setup) \subseteq DOMAIN known \cup left
    BY <1>1, <1>9 DEF BuildInv, JobSound
  <1>13. JobSound'
    BY <1>1, <1>2, <1>6, <1>8, <1>11, <1>12 DEF BuildInv, JobSound, tree, output
  <1>14. ReuseSound'
    BY <1>1, <1>6 DEF BuildInv, ReuseSound, CurrentFor, SourcesCurrent, Metadata, tree, output
  <1> QED
    BY <1>1, <1>7, <1>13, <1>14, RecordStays DEF BuildInv, output

\* A build that ends leaves what is on disk.
LEMMA StopInv ==
    ASSUME BuildInv, job' = Idle, UNCHANGED <<tree, output>>
    PROVE  BuildInv'
  <1>1. BuildTypeInv'
    BY UnreadIs DEF BuildInv, BuildTypeInv, Idle, Job, Jobs, BuildPlaces, tree, output
  <1>2. JobSound'
    BY UnreadIs DEF JobSound, Idle, Job
  <1>3. ReuseSound'
    BY DEF BuildInv, ReuseSound, CurrentFor, SourcesCurrent, Metadata, Idle, Job, tree, output
  <1> QED
    BY <1>1, <1>2, <1>3, RecordStays DEF BuildInv, output

\* A product that is written gets a stamp no record has.
LEMMA NewProductRecord ==
    ASSUME BuildInv, writes' = writes + 1, record' = record,
           product' # Absent => product'.stamp = writes'
    PROVE  RecordSound'
  BY DEF BuildInv, BuildTypeInv, RecordSound, Whole, Closed, Unbroken

LEMMA EmitInv ==
    ASSUME BuildInv, Emit
    PROVE  BuildInv'
  <1>1. /\ job \in Jobs /\ job.pc = "load" /\ job.pending = {} /\ ~Diagnosed
        /\ writes' = writes + 1 /\ settled' = NoSetup
        /\ UNCHANGED <<tree, companion, record>>
    BY DEF BuildInv, BuildTypeInv, Emit, At, Writing
  <1>2. \/ product' = Product(job.setup, job.loaded, writes') /\ Turn("companions")
        \/ product' \in {Absent, Garbage(writes')} /\ job' = Idle
    BY DEF Emit
  <1>3. product' # Absent => product'.stamp = writes'
    BY <1>2, KindsDiffer
  <1>4. RecordSound'
    BY <1>1, <1>3, NewProductRecord
  <1>5. Whole(job.setup, job.loaded)
    BY <1>1 DEF BuildInv, JobSound, Whole, Closed, Jobs, Unbroken, Diagnosed
  <1>6. CASE job' = Idle
    <2>1. BuildTypeInv'
      BY <1>1, <1>6, UnreadIs DEF BuildInv, BuildTypeInv, Idle, Job, Jobs, BuildPlaces, tree
    <2>2. JobSound' /\ ReuseSound'
      BY <1>1, <1>6, UnreadIs DEF JobSound, ReuseSound, Idle, Job
    <2> QED
      BY <1>4, <2>1, <2>2 DEF BuildInv
  <1>7. CASE product' = Product(job.setup, job.loaded, writes') /\ Turn("companions")
    <2>1. /\ job'.pc = "companions" /\ job'.setup = job.setup /\ job'.loaded = job.loaded
          /\ job' \in Jobs
      BY <1>1, <1>7 DEF Turn, Jobs, BuildPlaces
    <2>2. BuildTypeInv'
      BY <1>1, <2>1 DEF BuildInv, BuildTypeInv, tree
    <2>3. Whole(job.setup, job.loaded)'
      BY <1>5, <2>1 DEF Whole, Closed, Unbroken
    <2>4. JobSound'
      BY <1>1, <1>7, <2>1, <2>3 DEF BuildInv, JobSound, tree, Whole
    <2>5. ReuseSound'
      BY <1>1, <2>1 DEF ReuseSound
    <2> QED
      BY <1>4, <2>2, <2>4, <2>5 DEF BuildInv
  <1> QED
    BY <1>2, <1>6, <1>7

LEMMA WriteCompanionsInv ==
    ASSUME BuildInv, WriteCompanions
    PROVE  BuildInv'
  <1>1. /\ job \in Jobs /\ job.pc = "companions" /\ settled = NoSetup
        /\ UNCHANGED <<tree, product, record, writes, settled>>
    BY DEF BuildInv, BuildTypeInv, JobSound, WriteCompanions, At
  <1>2. \/ (HasCompanion[job.setup] => companion' = Companion(job.loaded)) /\ Turn("record")
        \/ job' = Idle
    BY DEF WriteCompanions
  <1>3. RecordSound'
    BY <1>1, RecordStays DEF BuildInv
  <1>4. CASE job' = Idle
    <2>1. BuildTypeInv'
      BY <1>1, <1>4, UnreadIs DEF BuildInv, BuildTypeInv, Idle, Job, Jobs, BuildPlaces, tree
    <2>2. JobSound' /\ ReuseSound'
      BY <1>1, <1>4, UnreadIs DEF JobSound, ReuseSound, Idle, Job
    <2> QED
      BY <1>3, <2>1, <2>2 DEF BuildInv
  <1>5. CASE (HasCompanion[job.setup] => companion' = Companion(job.loaded)) /\ Turn("record")
    <2>1. /\ job'.pc = "record" /\ job'.setup = job.setup /\ job'.loaded = job.loaded
          /\ job' \in Jobs
      BY <1>1, <1>5 DEF Turn, Jobs, BuildPlaces
    <2>2. BuildTypeInv'
      BY <1>1, <2>1 DEF BuildInv, BuildTypeInv, tree
    <2>3. Whole(job.setup, job.loaded)'
      BY <1>1, <2>1 DEF BuildInv, JobSound, Whole, Closed, Unbroken
    <2>4. JobSound'
      BY <1>1, <1>5, <2>1, <2>3 DEF BuildInv, JobSound, tree
    <2>5. ReuseSound'
      BY <1>1, <2>1 DEF ReuseSound
    <2> QED
      BY <1>3, <2>2, <2>4, <2>5 DEF BuildInv
  <1> QED
    BY <1>2, <1>4, <1>5

LEMMA WriteBuildCacheInv ==
    ASSUME BuildInv, WriteBuildCache
    PROVE  BuildInv'
  <1> DEFINE seen == [f \in DOMAIN job.loaded |-> versions[f]]
             beside == IF HasCompanion[job.setup] THEN companion ELSE Absent
  <1>1. /\ job \in Jobs /\ job.pc = "record" /\ job' = [job EXCEPT !.pc = "built"]
        /\ record' = [setup |-> job.setup, metadata |-> Metadata(product),
                      companion |-> beside, sources |-> seen]
        /\ settled' = job.setup
        /\ UNCHANGED <<tree, product, companion, writes>>
    BY DEF BuildInv, BuildTypeInv, WriteBuildCache, At, Turn
  <1>2. /\ Whole(job.setup, job.loaded) /\ product = Product(job.setup, job.loaded, writes)
        /\ HasCompanion[job.setup] => companion = Companion(job.loaded)
    BY <1>1 DEF BuildInv, JobSound
  <1>3. job.loaded \in [DOMAIN job.loaded -> Versions]
    BY <1>1, SnapshotIs DEF Jobs
  <1>4. seen = job.loaded
    BY <1>3 DEF BuildInv, JobSound
  <1>5. product # Absent /\ Metadata(product) = writes
    BY <1>2, KindsDiffer DEF Metadata
  <1>6. /\ record' # Absent /\ record'.setup = job.setup /\ record'.metadata = writes
        /\ record'.sources = job.loaded
        /\ HasCompanion[job.setup] => record'.companion = companion
    BY <1>1, <1>4, <1>5, KindsDiffer
  <1> HIDE DEF seen, beside
  <1>7. /\ job'.pc = "built" /\ job'.setup = job.setup /\ job'.loaded = job.loaded
        /\ job' \in Jobs
    BY <1>1 DEF Jobs, BuildPlaces
  <1>8. BuildTypeInv'
    BY <1>1, <1>2, <1>7 DEF BuildInv, BuildTypeInv, tree, Whole
  <1>9. JobSound'
    BY <1>1, <1>2, <1>7 DEF BuildInv, JobSound, tree, Whole, Closed, Unbroken
  <1>10. RecordSound'
    BY <1>1, <1>2, <1>6, KindsDiffer DEF BuildInv, BuildTypeInv, RecordSound, Whole, Closed, Unbroken
  <1>11. CurrentFor(job.setup)'
    BY <1>1, <1>2, <1>5, <1>6, <1>7 DEF CurrentFor, SourcesCurrent, Metadata, BuildInv, JobSound, tree
  <1>12. ReuseSound'
    BY <1>1, <1>7, <1>11 DEF ReuseSound
  <1> QED
    BY <1>8, <1>9, <1>10, <1>12 DEF BuildInv

LEMMA MeddleInv ==
    ASSUME BuildInv, Meddle
    PROVE  BuildInv'
  <1>1. /\ job.pc = "idle" /\ settled' = NoSetup
        /\ UNCHANGED <<tree, job, record>>
    BY DEF Meddle, At
  <1>2. \/ writes' = writes + 1 /\ product' \in {Absent, Garbage(writes')}
        \/ UNCHANGED <<product, writes>>
    BY DEF Meddle, Writing
  <1>3. RecordSound'
    <2>1. CASE writes' = writes + 1 /\ product' \in {Absent, Garbage(writes')}
      BY <1>1, <2>1, KindsDiffer, NewProductRecord
    <2>2. CASE UNCHANGED <<product, writes>>
      BY <1>1, <2>2, RecordStays DEF BuildInv
    <2> QED
      BY <1>2, <2>1, <2>2
  <1>4. BuildTypeInv'
    BY <1>1, <1>2 DEF BuildInv, BuildTypeInv, tree
  <1>5. JobSound' /\ ReuseSound'
    BY <1>1 DEF BuildInv, JobSound, ReuseSound, tree
  <1> QED
    BY <1>3, <1>4, <1>5 DEF BuildInv

LEMMA EditInv ==
    ASSUME BuildInv, NEW f \in Files, NEW v \in Versions, EditBetweenBuilds(f, v)
    PROVE  BuildInv'
  <1>1. /\ job.pc = "idle" /\ settled' = NoSetup
        /\ versions' = [versions EXCEPT ![f] = v]
        /\ UNCHANGED <<job, product, companion, record, writes>>
    BY DEF EditBetweenBuilds, Save, At
  <1>2. BuildTypeInv'
    BY <1>1 DEF BuildInv, BuildTypeInv
  <1>3. ReuseSound'
    BY <1>1 DEF ReuseSound
  <1>4. JobSound'
    BY <1>1 DEF BuildInv, JobSound
  <1> QED
    BY <1>1, <1>2, <1>3, <1>4, RecordStays DEF BuildInv

LEMMA BuildNextInv == BuildInv /\ [BuildNext]_<<tree, job, output>> => BuildInv'
  <1> SUFFICES ASSUME BuildInv, [BuildNext]_<<tree, job, output>> PROVE BuildInv'
    OBVIOUS
  <1>1. CASE BuildStep
    <2>1. ASSUME NEW s \in Setups, StartBuild(s) PROVE BuildInv'
      BY <2>1, StartBuildInv
    <2>2. ASSUME NEW f \in Files, LoadModule(f) PROVE BuildInv'
      BY <2>2, LoadModuleInv
    <2>3. Reject \/ Leave => BuildInv'
      BY StopInv DEF Reject, Leave
    <2> QED
      BY <1>1, <2>1, <2>2, <2>3, ReuseInv, MissInv, EmitInv, WriteCompanionsInv, WriteBuildCacheInv
      DEF BuildStep
  <1>2. CASE Meddle
    BY <1>2, MeddleInv
  <1>3. ASSUME NEW f \in Files, NEW v \in Versions, EditBetweenBuilds(f, v) PROVE BuildInv'
    BY <1>3, EditInv
  <1>4. CASE UNCHANGED <<tree, job, output>>
    <2>1. BuildTypeInv' /\ JobSound'
      BY <1>4 DEF BuildInv, BuildTypeInv, JobSound, Whole, Closed, Unbroken, tree, output
    <2>2. ReuseSound'
      BY <1>4 DEF BuildInv, ReuseSound, CurrentFor, SourcesCurrent, Metadata, tree, output
    <2>3. RecordSound'
      BY <1>4, RecordStays DEF BuildInv, output
    <2> QED
      BY <2>1, <2>2, <2>3 DEF BuildInv
  <1> QED
    BY <1>1, <1>2, <1>3, <1>4 DEF BuildNext

LEMMA InvBuildsAnswer == BuildInv => BuildsAnswerCurrent
  <1> SUFFICES ASSUME BuildInv, job.pc \in {"built", "reused"}
               PROVE  /\ product.is = "product" /\ product.setup = job.setup
                      /\ Closed(job.setup, product.of)
                      /\ \A f \in DOMAIN product.of :
                            product.of[f] = versions[f] /\ <<f, versions[f]>> \notin Broken
                      /\ HasCompanion[job.setup] => companion = Companion(product.of)
    BY DEF BuildsAnswerCurrent
  <1>1. ASSUME NEW s, NEW modules, NEW n, product = Product(s, modules, n)
        PROVE  product.is = "product" /\ product.setup = s /\ product.of = modules
    BY <1>1 DEF Product
  <1>2. CASE job.pc = "built"
    <2>1. /\ Whole(job.setup, job.loaded) /\ product = Product(job.setup, job.loaded, writes)
          /\ \A f \in DOMAIN job.loaded : job.loaded[f] = versions[f]
          /\ HasCompanion[job.setup] => companion = Companion(job.loaded)
      BY <1>2 DEF BuildInv, JobSound
    <2> QED
      BY <1>1, <2>1 DEF Whole, Unbroken
  <1>3. CASE job.pc = "reused"
    <2>1. CurrentFor(job.setup)
      BY <1>3 DEF BuildInv, ReuseSound
    <2>2. /\ record # Absent /\ record.setup = job.setup
          /\ product # Absent /\ product.stamp = record.metadata
          /\ HasCompanion[job.setup] => companion = record.companion
      BY <2>1 DEF CurrentFor, Metadata
    <2>3. \A f \in DOMAIN record.sources : versions[f] = record.sources[f]
      BY <2>1 DEF CurrentFor, SourcesCurrent
    <2>4. /\ Whole(job.setup, record.sources)
          /\ product = Product(job.setup, record.sources, record.metadata)
          /\ HasCompanion[job.setup] => record.companion = Companion(record.sources)
      BY <2>2 DEF BuildInv, RecordSound
    <2> QED
      BY <1>1, <2>2, <2>3, <2>4 DEF Whole, Unbroken
  <1> QED
    BY <1>2, <1>3

\* A step of checks, builds and edits is one of builds, or changes nothing of them.
LEMMA BothAreBuilds ==
    /\ Init => TreeInit /\ BuildInit
    /\ [Next]_vars => [BuildNext]_<<tree, job, output>>
  <1>1. Init => TreeInit /\ BuildInit
    BY DEF Init, CheckInit
  <1>2. ASSUME NEW c \in Checkers, CheckStep(c) PROVE UNCHANGED tree
    BY <1>2 DEF CheckStep, BeginCheck, HashFails, Look, Check, Open, Write, Rename, WriteFails, Exit, Hash, Load
  <1>3. Checking => UNCHANGED <<tree, job, output>>
    BY <1>2 DEF Checking
  <1>4. Building \/ Editing => BuildNext
    BY DEF Building, Editing, BuildNext
  <1>5. UNCHANGED vars => UNCHANGED <<tree, job, output>>
    BY DEF vars
  <1> QED
    BY <1>1, <1>3, <1>4, <1>5 DEF Next

\* For any files, contents, setups and numbers of writings, after failures,
\* kills, edits, edits undone and other people's removals in any order, and
\* while `tn check` runs: the state of builds and of their record keeps its
\* types, and the record tells the truth of the product that bears its stamp.
THEOREM RecordIsTrue == Spec => [](BuildTypeInv /\ RecordSound)
  <1>1. Init => BuildInv
    BY BothAreBuilds, BuildInitInv
  <1>2. BuildInv /\ [Next]_vars => BuildInv'
    BY BothAreBuilds, BuildNextInv
  <1>3. BuildInv => BuildTypeInv /\ RecordSound
    BY DEF BuildInv
  <1> QED
    BY <1>1, <1>2, <1>3, PTL DEF Spec

\* What a build ends with, made or reused, is what a build without a cache
\* would have made of the files as they are.
THEOREM BuildsAreCurrent == Spec => []BuildsAnswerCurrent
  <1>1. Init => BuildInv
    BY BothAreBuilds, BuildInitInv
  <1>2. BuildInv /\ [Next]_vars => BuildInv'
    BY BothAreBuilds, BuildNextInv
  <1> QED
    BY <1>1, <1>2, InvBuildsAnswer, PTL DEF Spec

\* A build of what was built last, with nothing changed since, does not load
\* a module.
THEOREM UnchangedCompilesNothing == Spec => []UnchangedIsReused
  <1>1. Init => BuildInv
    BY BothAreBuilds, BuildInitInv
  <1>2. BuildInv /\ [Next]_vars => BuildInv'
    BY BothAreBuilds, BuildNextInv
  <1>3. BuildInv => UnchangedIsReused
    BY DEF BuildInv, JobSound, UnchangedIsReused, At
  <1> QED
    BY <1>1, <1>2, <1>3, PTL DEF Spec
=============================================================================
