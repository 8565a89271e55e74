--------------------------- MODULE PrivateFilesProofs ---------------------------
(***************************************************************************)
(* What PrivateFiles guarantees for any number of writers, readers,        *)
(* contents, crashes and power losses.                                     *)
(*                                                                         *)
(* IInv says where each process stands with the file it writes or reads:   *)
(* a temporary is its writer's alone and changes no more once it has a     *)
(* name, a file with a name is complete and durable, and from the sync of  *)
(* its directory on a published file, or a later one, is on disk.          *)
(***************************************************************************)
EXTENDS PrivateFiles, FiniteSetTheorems, SequenceTheorems, TLAPS

Inode == [bytes : Values \cup {"partial"}, durable : BOOLEAN, time : 0..2, temporary : BOOLEAN]

Named == Range(published)

\* The variables that TypeOK leaves out.
FilesTyped ==
    /\ published \in Seq(1..Len(inodes))
    /\ opened \in [Procs -> Nat] /\ DOMAIN seen = Procs
    /\ acked \subseteq Named /\ accepted \subseteq Values
    /\ {record, kept} \subseteq Named \cup {0}

\* A file with a name is a complete write, synced before it was named.
NamedIsWhole ==
    \A i \in Named : inodes[i].durable /\ inodes[i].bytes \in Values

\* A writer's temporary is its own.
TemporaryIsOwn ==
    \A w, v \in Writers : w # v /\ mine[w] = mine[v] => mine[w] = 0

\* How far a writer has come with its temporary.
WriterSound(w) ==
    /\ mine[w] <= Len(inodes)
    /\ pc[w] \in {"idle", "chmod", "temporary"} => mine[w] = 0 /\ w \notin publisher
    /\ pc[w] \in {"write", "publish", "unlink", "sync", "stat", "open", "check"} => mine[w] # 0
    /\ pc[w] \in {"write", "publish"} =>
          w \notin publisher /\ mine[w] \notin Named /\ inodes[mine[w]].time = 0
    /\ pc[w] = "publish" => inodes[mine[w]].durable /\ inodes[mine[w]].bytes = value[w]
    /\ pc[w] = "unlink" => inodes[mine[w]].time <= 1
    /\ pc[w] \in {"sync", "stat", "open", "check"} => ~inodes[mine[w]].temporary
    /\ pc[w] = "sync" => w \in publisher
    /\ w \in publisher => mine[w] \in Named

\* A process reads a file that had the name.
ReaderSound(p) ==
    /\ pc[p] \in {"open", "check"} => record # 0
    /\ pc[p] = "check" => opened[p] \in Named

\* The file at place k of published, or a later one, is file i.
Later(k, i) == \E l \in k..Len(published) : published[l] = i

\* What is published is there or was replaced, and once its directory was synced it is so on disk.
PublishedStays ==
    \A k \in DOMAIN published :
        /\ published[k] \in acked => Later(k, record) /\ Later(k, kept)
        /\ \A w \in publisher : published[k] = mine[w] =>
              /\ Later(k, record)
              /\ pc[w] \in {"stat", "open", "check"} => Later(k, kept)

\* The name of an immutable record leads to one file from its first link on, unless a power
\* loss takes back one that nobody answered for.
OneFile ==
    mode # "atomic" =>
        /\ kept \in {0, record}
        /\ acked \subseteq {record} /\ (acked # {} => kept = record)
        /\ \A w \in publisher : mine[w] = record
        /\ \A w \in publisher : pc[w] \in {"stat", "open", "check"} => kept = record
        /\ \A p \in Procs : pc[p] = "check" => opened[p] = record
        /\ accepted # {} => record # 0
        /\ \A b \in accepted : b = inodes[record].bytes

IInv ==
    /\ TypeOK /\ FilesTyped
    /\ NamedIsWhole /\ TemporaryIsOwn
    /\ \A w \in Writers : WriterSound(w)
    /\ \A p \in Procs : ReaderSound(p)
    /\ PublishedStays /\ OneFile

-----------------------------------------------------------------------------
\* A sequence that grows.
LEMMA Appended ==
    ASSUME NEW S, NEW s \in Seq(S), NEW x
    PROVE  /\ Range(Append(s, x)) = Range(s) \cup {x}
           /\ Len(Append(s, x)) = Len(s) + 1 /\ DOMAIN Append(s, x) = 1..(Len(s) + 1)
           /\ Append(s, x)[Len(s) + 1] = x
           /\ \A j \in 1..Len(s) : Append(s, x)[j] = s[j]
BY DEF Range

\* Files have numbers from one on, and names lead to files only.
LEMMA Numbered ==
    ASSUME IInv
    PROVE  /\ Len(inodes) \in Nat /\ inodes \in Seq(Inode) /\ DOMAIN inodes = 1..Len(inodes)
           /\ Named \subseteq 1..Len(inodes)
           /\ \A w \in Writers : mine[w] # 0 => mine[w] \in 1..Len(inodes)
BY DEF IInv, TypeOK, FilesTyped, Inode, WriterSound, Named, Range

\* A writer changes its own temporary only.
LEMMA Touched ==
    ASSUME IInv, NEW i \in 1..Len(inodes), NEW r \in Inode, inodes' = [inodes EXCEPT ![i] = r]
    PROVE  /\ inodes' \in Seq(Inode) /\ Len(inodes') = Len(inodes)
           /\ inodes'[i] = r /\ \A j \in 1..Len(inodes) \ {i} : inodes'[j] = inodes[j]
BY Numbered, ExceptSeq

\* What writeTemporary syncs is still nobody's but the writer's.
LEMMA WriteTemporaryStep ==
    ASSUME IInv, NEW w \in Writers, WriteTemporary(w)
    PROVE  IInv'
<1> DEFINE i == mine[w]
<1> DEFINE r == [inodes[i] EXCEPT !.bytes = value[w], !.durable = TRUE]
<1>1. i \in 1..Len(inodes) /\ i \notin Named /\ inodes[i] \in Inode
  BY Numbered, ElementOfSeq DEF IInv, WriterSound, WriteTemporary
<1>2. r \in Inode /\ r.bytes = value[w] /\ r.durable /\ r.time = inodes[i].time /\ r.temporary = inodes[i].temporary
  BY <1>1 DEF IInv, TypeOK, Inode
<1>3. inodes' = [inodes EXCEPT ![i] = r]
  BY <1>1 DEF WriteTemporary, Inode
<1>4. /\ inodes' \in Seq(Inode) /\ Len(inodes') = Len(inodes)
      /\ inodes'[i] = r /\ \A j \in 1..Len(inodes) \ {i} : inodes'[j] = inodes[j]
  BY <1>1, <1>2, <1>3, Touched
<1>5. /\ UNCHANGED <<mode, value, dir, record, kept, published, mine, publisher, seen, opened, acked, accepted, losses>>
      /\ pc[w] = "write" /\ pc' = [pc EXCEPT ![w] = "publish"] /\ Named' = Named
  BY DEF WriteTemporary, Goto, pastVars, Named
<1> HIDE DEF i, r
<1>6. TypeOK'
  BY <1>5, <1>1, <1>2, <1>4, Numbered DEF IInv, TypeOK, Inode, TemporaryIsOwn, Procs, Steps, WriterSound, i
<1>7. FilesTyped'
  BY <1>5, <1>4 DEF IInv, FilesTyped
<1>8. NamedIsWhole'
  BY <1>5, <1>1, <1>2, <1>4, Numbered DEF IInv, NamedIsWhole
<1>9. TemporaryIsOwn'
  BY <1>5 DEF IInv, TemporaryIsOwn
<1>10. \A v \in Writers : WriterSound(v)'
  BY <1>5, <1>1, <1>2, <1>4, Numbered DEF IInv, WriterSound, TemporaryIsOwn, TypeOK, Procs, Steps, i
<1>11. \A q \in Procs : ReaderSound(q)'
  BY <1>5 DEF IInv, ReaderSound, TypeOK, Procs
<1>12. PublishedStays'
  BY <1>5 DEF IInv, PublishedStays, Later, TypeOK, Procs
<1>13. OneFile'
  BY <1>5, <1>1, <1>2, <1>4, Numbered DEF IInv, OneFile, TypeOK, FilesTyped, Procs
<1> QED  BY <1>6, <1>7, <1>8, <1>9, <1>10, <1>11, <1>12, <1>13 DEF IInv

\* unlink takes the temporary's own name away; the record's name, if the writer won it, stays.
LEMMA UnlinkStep ==
    ASSUME IInv, NEW w \in Writers, Unlink(w)
    PROVE  IInv'
<1> DEFINE i == mine[w]
<1>1. i \in 1..Len(inodes) /\ inodes[i] \in Inode /\ inodes[i].time <= 1
  BY Numbered, ElementOfSeq DEF IInv, WriterSound, Unlink
<1>0. PICK t \in {0, 1} : inodes' = [inodes EXCEPT ![i].time = @ + t, ![i].temporary = FALSE]
  BY DEF Unlink
<1> DEFINE r == [inodes[i] EXCEPT !.time = @ + t, !.temporary = FALSE]
<1>2. r \in Inode /\ r.bytes = inodes[i].bytes /\ r.durable = inodes[i].durable /\ ~r.temporary
  <2>1. inodes[i].time + t \in 0..2
    BY <1>1 DEF Inode
  <2> QED  BY <1>1, <2>1 DEF Inode
<1>3. inodes' = [inodes EXCEPT ![i] = r]
  BY <1>0, <1>1 DEF Inode
<1>4. /\ inodes' \in Seq(Inode) /\ Len(inodes') = Len(inodes)
      /\ inodes'[i] = r /\ \A j \in 1..Len(inodes) \ {i} : inodes'[j] = inodes[j]
  BY <1>1, <1>2, <1>3, Touched
<1>5. /\ UNCHANGED <<mode, value, dir, record, kept, published, mine, publisher, seen, opened, acked, accepted, losses>>
      /\ pc[w] = "unlink" /\ pc' = [pc EXCEPT ![w] = IF w \in publisher THEN "sync" ELSE "stat"]
      /\ Named' = Named
  BY DEF Unlink, Goto, pastVars, Named
<1> HIDE DEF i, r
<1>6. TypeOK'
  BY <1>5, <1>1, <1>2, <1>4, Numbered DEF IInv, TypeOK, Inode, TemporaryIsOwn, Procs, Steps, WriterSound, i
<1>7. FilesTyped'
  BY <1>5, <1>4 DEF IInv, FilesTyped
<1>8. NamedIsWhole'
  BY <1>5, <1>1, <1>2, <1>4, Numbered DEF IInv, NamedIsWhole
<1>9. TemporaryIsOwn'
  BY <1>5 DEF IInv, TemporaryIsOwn
<1>10. \A v \in Writers : WriterSound(v)'
  BY <1>5, <1>1, <1>2, <1>4, Numbered DEF IInv, WriterSound, TemporaryIsOwn, TypeOK, Procs, Steps, i
<1>11. \A q \in Procs : ReaderSound(q)'
  BY <1>5 DEF IInv, ReaderSound, TypeOK, Procs
<1>12. PublishedStays'
  BY <1>5 DEF IInv, PublishedStays, Later, TypeOK, Procs
<1>13. OneFile'
  BY <1>5, <1>1, <1>2, <1>4, Numbered DEF IInv, OneFile, TypeOK, FilesTyped, Procs
<1> QED  BY <1>6, <1>7, <1>8, <1>9, <1>10, <1>11, <1>12, <1>13 DEF IInv

\* A failed call removes the temporary and touches nothing that has the record's name.
LEMMA FailStep ==
    ASSUME IInv, NEW w \in Writers, Fail(w)
    PROVE  IInv'
<1> DEFINE i == mine[w]
<1> DEFINE r == [inodes[i] EXCEPT !.temporary = FALSE]
<1>1. i \in 1..Len(inodes) /\ inodes[i] \in Inode
  BY Numbered, ElementOfSeq DEF IInv, WriterSound, Fail, Inode
<1>2. r \in Inode /\ r.bytes = inodes[i].bytes /\ r.durable = inodes[i].durable
      /\ r.time = inodes[i].time /\ ~r.temporary
  BY <1>1 DEF Inode
<1>3. inodes' = [inodes EXCEPT ![i] = r]
  BY <1>1 DEF Fail, Inode
<1>4. /\ inodes' \in Seq(Inode) /\ Len(inodes') = Len(inodes)
      /\ inodes'[i] = r /\ \A j \in 1..Len(inodes) \ {i} : inodes'[j] = inodes[j]
  BY <1>1, <1>2, <1>3, Touched
<1>5. /\ UNCHANGED <<mode, value, dir, record, kept, published, mine, publisher, seen, opened, acked, accepted, losses>>
      /\ pc[w] \in {"write", "publish", "unlink", "sync"} /\ pc' = [pc EXCEPT ![w] = "failed"]
      /\ Named' = Named
  BY DEF Fail, Goto, pastVars, Named
<1> HIDE DEF i, r
<1>6. TypeOK'
  BY <1>5, <1>1, <1>2, <1>4, Numbered DEF IInv, TypeOK, Inode, TemporaryIsOwn, Procs, Steps, WriterSound, i
<1>7. FilesTyped'
  BY <1>5, <1>4 DEF IInv, FilesTyped
<1>8. NamedIsWhole'
  BY <1>5, <1>1, <1>2, <1>4, Numbered DEF IInv, NamedIsWhole
<1>9. TemporaryIsOwn'
  BY <1>5 DEF IInv, TemporaryIsOwn
<1>10. \A v \in Writers : WriterSound(v)'
  BY <1>5, <1>1, <1>2, <1>4, Numbered DEF IInv, WriterSound, TemporaryIsOwn, TypeOK, Procs, Steps, i
<1>11. \A q \in Procs : ReaderSound(q)'
  BY <1>5 DEF IInv, ReaderSound, TypeOK, Procs
<1>12. PublishedStays'
  BY <1>5 DEF IInv, PublishedStays, Later, TypeOK, Procs
<1>13. OneFile'
  BY <1>5, <1>1, <1>2, <1>4, Numbered DEF IInv, OneFile, TypeOK, FilesTyped, Procs
<1> QED  BY <1>6, <1>7, <1>8, <1>9, <1>10, <1>11, <1>12, <1>13 DEF IInv

\* rename gives the record's name to a file that is complete, and puts it last in published.
LEMMA RenameStep ==
    ASSUME IInv, NEW w \in Writers, Rename(w)
    PROVE  IInv'
<1> DEFINE i == mine[w]
<1> DEFINE r == [inodes[i] EXCEPT !.time = @ + 1, !.temporary = FALSE]
<1>1. i \in 1..Len(inodes) /\ i \notin Named /\ inodes[i] \in Inode /\ inodes[i].time = 0
      /\ inodes[i].durable /\ inodes[i].bytes = value[w] /\ value[w] \in Values
  BY Numbered, ElementOfSeq DEF IInv, WriterSound, Rename, TypeOK
<1>2. r \in Inode /\ r.bytes = inodes[i].bytes /\ r.durable = inodes[i].durable /\ ~r.temporary
  <2>1. inodes[i].time + 1 \in 0..2
    BY <1>1
  <2> QED  BY <1>1, <2>1 DEF Inode
<1>3. inodes' = [inodes EXCEPT ![i] = r]
  BY <1>1 DEF Rename, Inode
<1>4. /\ inodes' \in Seq(Inode) /\ Len(inodes') = Len(inodes)
      /\ inodes'[i] = r /\ \A j \in 1..Len(inodes) \ {i} : inodes'[j] = inodes[j]
  BY <1>1, <1>2, <1>3, Touched
<1>5. /\ UNCHANGED <<mode, value, dir, kept, mine, seen, opened, acked, accepted, losses>>
      /\ record' = i /\ published' = Append(published, i) /\ publisher' = publisher \cup {w} /\ mode = "atomic"
      /\ pc[w] = "publish" /\ pc' = [pc EXCEPT ![w] = "sync"]
  BY DEF Rename, Goto, pastVars
<1>6. /\ Named' = Named \cup {i}
      /\ Len(published') = Len(published) + 1 /\ DOMAIN published' = 1..(Len(published) + 1)
      /\ published'[Len(published) + 1] = i
      /\ \A k \in 1..Len(published) : published'[k] = published[k]
  BY <1>5, Appended DEF IInv, FilesTyped, Named
<1> HIDE DEF i, r
<1>7. TypeOK'
  BY <1>5, <1>6, <1>1, <1>2, <1>4, Numbered DEF IInv, TypeOK, Inode, TemporaryIsOwn, Procs, Steps, WriterSound, i
<1>8. FilesTyped'
  <2>1. published' \in Seq(1..Len(inodes))
    BY <1>5, <1>6, <1>1, AppendProperties DEF IInv, FilesTyped
  <2> QED  BY <1>5, <1>6, <1>4, <2>1 DEF IInv, FilesTyped
<1>9. NamedIsWhole'
  BY <1>5, <1>6, <1>1, <1>2, <1>4, Numbered DEF IInv, NamedIsWhole
<1>10. TemporaryIsOwn'
  BY <1>5, <1>6 DEF IInv, TemporaryIsOwn
<1>11. \A v \in Writers : WriterSound(v)'
  BY <1>5, <1>6, <1>1, <1>2, <1>4, Numbered DEF IInv, WriterSound, TemporaryIsOwn, TypeOK, Procs, Steps, i
<1>12. \A q \in Procs : ReaderSound(q)'
  BY <1>5, <1>6, <1>1 DEF IInv, ReaderSound, TypeOK, Procs
<1>13. PublishedStays'
  <2>1. ASSUME NEW k \in 1..(Len(published) + 1)
        PROVE  Later(k, record)'
    BY <1>5, <1>6 DEF Later, IInv, FilesTyped
  <2>2. ASSUME NEW k \in 1..Len(published), Later(k, kept)
        PROVE  Later(k, kept)'
    BY <1>5, <1>6, <2>2 DEF Later, IInv, FilesTyped
  <2>3. ASSUME NEW k \in DOMAIN published', published'[k] \in acked
        PROVE  Later(k, record)' /\ Later(k, kept)'
    BY <1>5, <1>6, <1>1, <2>1, <2>2, <2>3 DEF IInv, PublishedStays, FilesTyped
  <2>4. ASSUME NEW k \in DOMAIN published', NEW v \in publisher', published'[k] = mine[v]
        PROVE  Later(k, record)' /\ (pc'[v] \in {"stat", "open", "check"} => Later(k, kept)')
    <3>1. CASE v = w
      BY <1>5, <1>6, <2>1, <3>1 DEF IInv, TypeOK, Procs
    <3>2. CASE v # w
      <4>1. v \in publisher /\ v \in Writers /\ mine[v] \in Named /\ mine[v] # i
        BY <1>5, <1>6, <1>1, <3>2 DEF IInv, TypeOK, WriterSound
      <4> QED  BY <1>5, <1>6, <2>1, <2>2, <2>4, <3>2, <4>1 DEF IInv, PublishedStays, FilesTyped, TypeOK, Procs
    <3> QED  BY <3>1, <3>2
  <2> QED  BY <1>5, <1>6, <2>3, <2>4 DEF PublishedStays
<1>14. OneFile'
  BY <1>5 DEF OneFile
<1> QED  BY <1>7, <1>8, <1>9, <1>10, <1>11, <1>12, <1>13, <1>14 DEF IInv

\* The first link of an immutable record names a complete file.
LEMMA LinkFirst ==
    ASSUME IInv, NEW w \in Writers, Link(w), record = 0
    PROVE  IInv'
<1>0. \A p \in Procs : pc'[p] # "check"
  <2>1. \A p \in Procs : pc[p] # "check"
    BY record = 0 DEF IInv, ReaderSound
  <2>2. pc' = [pc EXCEPT ![w] = "unlink"] /\ pc \in [Procs -> Steps]
    BY DEF IInv, TypeOK, Link, Goto
  <2> QED  BY <2>1, <2>2
<1> DEFINE i == mine[w]
<1> DEFINE r == [inodes[i] EXCEPT !.time = @ + 1]
<1>1. i \in 1..Len(inodes) /\ i \notin Named /\ inodes[i] \in Inode /\ inodes[i].time = 0
      /\ inodes[i].durable /\ inodes[i].bytes = value[w] /\ value[w] \in Values
  BY Numbered, ElementOfSeq DEF IInv, WriterSound, Link, TypeOK
<1>2. r \in Inode /\ r.bytes = inodes[i].bytes /\ r.durable = inodes[i].durable /\ r.time = 1
  <2>1. inodes[i].time + 1 \in 0..2 /\ inodes[i].time + 1 = 1
    BY <1>1
  <2> QED  BY <1>1, <2>1 DEF Inode
<1>3. inodes' = [inodes EXCEPT ![i] = r]
  BY <1>1, record = 0 DEF Link, Inode
<1>4. /\ inodes' \in Seq(Inode) /\ Len(inodes') = Len(inodes)
      /\ inodes'[i] = r /\ \A j \in 1..Len(inodes) \ {i} : inodes'[j] = inodes[j]
  BY <1>1, <1>2, <1>3, Touched
<1>5. /\ UNCHANGED <<mode, value, dir, kept, mine, seen, opened, acked, accepted, losses>>
      /\ record' = i /\ published' = Append(published, i) /\ publisher' = publisher \cup {w} /\ mode # "atomic"
      /\ pc[w] = "publish" /\ pc' = [pc EXCEPT ![w] = "unlink"]
  BY record = 0 DEF Link, Goto, pastVars
<1>6. /\ Named' = Named \cup {i}
      /\ Len(published') = Len(published) + 1 /\ DOMAIN published' = 1..(Len(published) + 1)
      /\ published'[Len(published) + 1] = i
      /\ \A k \in 1..Len(published) : published'[k] = published[k]
  BY <1>5, Appended DEF IInv, FilesTyped, Named
<1> HIDE DEF i, r
<1>7. TypeOK'
  BY <1>5, <1>6, <1>1, <1>2, <1>4, Numbered DEF IInv, TypeOK, Inode, TemporaryIsOwn, Procs, Steps, WriterSound, i
<1>8. FilesTyped'
  <2>1. published' \in Seq(1..Len(inodes))
    BY <1>5, <1>6, <1>1, AppendProperties DEF IInv, FilesTyped
  <2> QED  BY <1>5, <1>6, <1>4, <2>1 DEF IInv, FilesTyped
<1>9. NamedIsWhole'
  BY <1>5, <1>6, <1>1, <1>2, <1>4, Numbered DEF IInv, NamedIsWhole
<1>10. TemporaryIsOwn'
  BY <1>5, <1>6 DEF IInv, TemporaryIsOwn
<1>11. \A v \in Writers : WriterSound(v)'
  BY <1>5, <1>6, <1>1, <1>2, <1>4, Numbered DEF IInv, WriterSound, TemporaryIsOwn, TypeOK, Procs, Steps, i
<1>12. \A q \in Procs : ReaderSound(q)'
  BY <1>5, <1>6, <1>1 DEF IInv, ReaderSound, TypeOK, Procs
<1>13. PublishedStays'
  <2>1. ASSUME NEW k \in 1..(Len(published) + 1)
        PROVE  Later(k, record)'
    BY <1>5, <1>6 DEF Later, IInv, FilesTyped
  <2>2. ASSUME NEW k \in 1..Len(published), Later(k, kept)
        PROVE  Later(k, kept)'
    BY <1>5, <1>6, <2>2 DEF Later, IInv, FilesTyped
  <2>3. ASSUME NEW k \in DOMAIN published', published'[k] \in acked
        PROVE  Later(k, record)' /\ Later(k, kept)'
    BY <1>5, <1>6, <1>1, <2>1, <2>2, <2>3 DEF IInv, PublishedStays, FilesTyped
  <2>4. ASSUME NEW k \in DOMAIN published', NEW v \in publisher', published'[k] = mine[v]
        PROVE  Later(k, record)' /\ (pc'[v] \in {"stat", "open", "check"} => Later(k, kept)')
    <3>1. CASE v = w
      BY <1>5, <1>6, <2>1, <3>1 DEF IInv, TypeOK, Procs
    <3>2. CASE v # w
      <4>1. v \in publisher /\ v \in Writers /\ mine[v] \in Named /\ mine[v] # i
        BY <1>5, <1>6, <1>1, <3>2 DEF IInv, TypeOK, WriterSound
      <4> QED  BY <1>5, <1>6, <2>1, <2>2, <2>4, <3>2, <4>1 DEF IInv, PublishedStays, FilesTyped, TypeOK, Procs
    <3> QED  BY <3>1, <3>2
  <2> QED  BY <1>5, <1>6, <2>3, <2>4 DEF PublishedStays
<1>14. OneFile'
  <2>1. 0 \notin Named
    BY Numbered
  <2>2. OneFile /\ mode # "atomic" /\ acked \subseteq Named \cap {0} /\ kept = 0 /\ accepted = {}
    BY <1>5, record = 0 DEF IInv, OneFile, FilesTyped
  <2>3. publisher = {}
    BY <2>1, <2>2, record = 0 DEF IInv, OneFile, WriterSound, TypeOK
  <2>4. acked = {}
    BY <2>1, <2>2
  <2> QED  BY <1>0, <1>5, <2>2, <2>3, <2>4 DEF OneFile, i
<1> QED  BY <1>7, <1>8, <1>9, <1>10, <1>11, <1>12, <1>13, <1>14 DEF IInv

\* A link that finds the name taken changes nothing but the writer's own place.
LEMMA LinkStep ==
    ASSUME IInv, NEW w \in Writers, Link(w)
    PROVE  IInv'
<1>1. CASE record = 0
  BY <1>1, LinkFirst
<1>2. CASE record # 0
  <2> USE <1>2 DEF Link, Goto, pastVars
  <2>0. /\ UNCHANGED <<mode, value, dir, record, kept, inodes, published, mine, publisher, seen, opened, acked, accepted, losses>>
        /\ pc[w] = "publish" /\ pc' = [pc EXCEPT ![w] = "unlink"] /\ Named' = Named
    BY DEF Named
  <2> USE <2>0
  <2>1. TypeOK'
    BY DEF IInv, TypeOK, Procs, Steps
  <2>2. \A v \in Writers : WriterSound(v)'
    BY DEF IInv, TypeOK, Procs, WriterSound
  <2>3. \A q \in Procs : ReaderSound(q)'
    BY DEF IInv, TypeOK, Procs, ReaderSound
  <2>4. FilesTyped' /\ NamedIsWhole' /\ TemporaryIsOwn'
    BY DEF IInv, FilesTyped, NamedIsWhole, TemporaryIsOwn
  <2>5. PublishedStays' /\ OneFile'
    BY DEF IInv, TypeOK, Procs, PublishedStays, Later, OneFile
  <2> QED  BY <2>1, <2>2, <2>3, <2>4, <2>5 DEF IInv
<1> QED  BY <1>1, <1>2

\* A new temporary is a file of its own.
LEMMA OpenTemporaryStep ==
    ASSUME IInv, NEW w \in Writers, OpenTemporary(w)
    PROVE  IInv'
<1> DEFINE n == Len(inodes) + 1
<1>1. /\ inodes' \in Seq(Inode) /\ Len(inodes') = n /\ inodes'[n] \in Inode
      /\ inodes'[n].time = 0
      /\ \A j \in 1..Len(inodes) : inodes'[j] = inodes[j]
  BY Numbered, AppendProperties DEF OpenTemporary, Inode
<1>2. /\ UNCHANGED <<mode, value, dir, record, kept, published, publisher, seen, opened, acked, accepted, losses>>
      /\ pc[w] = "temporary" /\ pc' = [pc EXCEPT ![w] = "write"] /\ Named' = Named
      /\ mine[w] = 0 /\ w \notin publisher /\ mine' = [mine EXCEPT ![w] = n] /\ n <= MaxInodes
  BY <1>1, Numbered, FileConstants DEF OpenTemporary, Goto, pastVars, Named, IInv, WriterSound, TypeOK
<1>3. n \in Nat \ {0} /\ n \notin Named /\ \A v \in Writers : mine[v] \in 0..Len(inodes)
  BY Numbered DEF IInv, WriterSound, TypeOK
<1> HIDE DEF n
<1>4. TypeOK'
  BY <1>1, <1>2, <1>3, Numbered, FileConstants DEF IInv, TypeOK, Inode, Procs, Steps, n
<1>5. FilesTyped'
  <2>1. published \in Seq(1..n)
    BY Numbered DEF IInv, FilesTyped, n
  <2> QED  BY <1>1, <1>2, <2>1 DEF IInv, FilesTyped
<1>6. NamedIsWhole'
  BY <1>1, <1>2, Numbered DEF IInv, NamedIsWhole
<1>7. TemporaryIsOwn'
  BY <1>2, <1>3 DEF IInv, TemporaryIsOwn, TypeOK, n
<1>8. \A v \in Writers : WriterSound(v)'
  <2>1. WriterSound(w)'
    BY <1>1, <1>2, <1>3 DEF WriterSound, IInv, TypeOK, Procs
  <2>2. ASSUME NEW v \in Writers, v # w
        PROVE  WriterSound(v)'
    BY <1>1, <1>2, <1>3, <2>2, Numbered DEF IInv, WriterSound, TypeOK, Procs, n
  <2> QED  BY <2>1, <2>2
<1>9. \A q \in Procs : ReaderSound(q)'
  BY <1>2 DEF IInv, ReaderSound, TypeOK, Procs
<1>10. PublishedStays'
  BY <1>2 DEF IInv, PublishedStays, Later, TypeOK, Procs
<1>11. OneFile'
  BY <1>1, <1>2, Numbered DEF IInv, OneFile, TypeOK, FilesTyped, Procs
<1> QED  BY <1>4, <1>5, <1>6, <1>7, <1>8, <1>9, <1>10, <1>11 DEF IInv

\* The directory is not part of what a file promises.
LEMMA MkdirStep ==
    ASSUME IInv, NEW w \in Writers, Mkdir(w)
    PROVE  IInv'
<1> USE DEF Mkdir, Goto, fileVars, pastVars
<1>1. TypeOK' /\ FilesTyped'
  BY DEF IInv, TypeOK, FilesTyped, Named, Procs, Steps, WriterSound
<1>2. NamedIsWhole' /\ TemporaryIsOwn'
  BY DEF IInv, NamedIsWhole, Named, TemporaryIsOwn, TypeOK
<1>3. \A u \in Writers : WriterSound(u)'
  BY FileConstants DEF IInv, TypeOK, WriterSound, Named, Procs
<1>4. \A q \in Procs : ReaderSound(q)'
  BY FileConstants DEF IInv, TypeOK, FilesTyped, ReaderSound, Named, Procs
<1>5. PublishedStays'
  BY FileConstants DEF IInv, TypeOK, PublishedStays, Later, Procs
<1>6. OneFile'
  BY FileConstants DEF IInv, TypeOK, FilesTyped, OneFile, ReaderSound, Procs
<1> QED  BY <1>1, <1>2, <1>3, <1>4, <1>5, <1>6 DEF IInv

\* Nor are its permissions.
LEMMA ChmodStep ==
    ASSUME IInv, NEW w \in Writers, Chmod(w)
    PROVE  IInv'
<1> USE DEF Chmod, Goto, fileVars, pastVars
<1>1. TypeOK' /\ FilesTyped'
  BY DEF IInv, TypeOK, FilesTyped, Named, Procs, Steps, WriterSound
<1>2. NamedIsWhole' /\ TemporaryIsOwn'
  BY DEF IInv, NamedIsWhole, Named, TemporaryIsOwn, TypeOK
<1>3. \A u \in Writers : WriterSound(u)'
  BY FileConstants DEF IInv, TypeOK, WriterSound, Named, Procs
<1>4. \A q \in Procs : ReaderSound(q)'
  BY FileConstants DEF IInv, TypeOK, FilesTyped, ReaderSound, Named, Procs
<1>5. PublishedStays'
  BY FileConstants DEF IInv, TypeOK, PublishedStays, Later, Procs
<1>6. OneFile'
  BY FileConstants DEF IInv, TypeOK, FilesTyped, OneFile, ReaderSound, Procs
<1> QED  BY <1>1, <1>2, <1>3, <1>4, <1>5, <1>6 DEF IInv

\* A synced directory leads on disk to what was published last.
LEMMA SyncDirectoryStep ==
    ASSUME IInv, NEW w \in Writers, SyncDirectory(w)
    PROVE  IInv'
<1> USE DEF SyncDirectory, Goto, pastVars
<1>1. TypeOK' /\ FilesTyped'
  BY DEF IInv, TypeOK, FilesTyped, Named, Procs, Steps, WriterSound
<1>2. NamedIsWhole' /\ TemporaryIsOwn'
  BY DEF IInv, NamedIsWhole, Named, TemporaryIsOwn, TypeOK
<1>3. \A u \in Writers : WriterSound(u)'
  BY FileConstants DEF IInv, TypeOK, WriterSound, Named, Procs
<1>4. \A q \in Procs : ReaderSound(q)'
  BY FileConstants DEF IInv, TypeOK, FilesTyped, ReaderSound, Named, Procs
<1>5. PublishedStays'
  BY FileConstants DEF IInv, TypeOK, PublishedStays, Later, Procs
<1>6. OneFile'
  BY FileConstants DEF IInv, TypeOK, FilesTyped, OneFile, ReaderSound, Procs
<1> QED  BY <1>1, <1>2, <1>3, <1>4, <1>5, <1>6 DEF IInv

\* A look at the record changes no file.
LEMMA StatStep ==
    ASSUME IInv, NEW p \in Procs, Stat(p)
    PROVE  IInv'
<1> USE DEF Stat, Goto, fileVars, pastVars
<1>1. TypeOK' /\ FilesTyped'
  BY DEF IInv, TypeOK, FilesTyped, Named, Procs, Steps, WriterSound
<1>2. NamedIsWhole' /\ TemporaryIsOwn'
  BY DEF IInv, NamedIsWhole, Named, TemporaryIsOwn, TypeOK
<1>3. \A u \in Writers : WriterSound(u)'
  BY FileConstants DEF IInv, TypeOK, WriterSound, Named, Procs
<1>4. \A q \in Procs : ReaderSound(q)'
  BY FileConstants DEF IInv, TypeOK, FilesTyped, ReaderSound, Named, Procs
<1>5. PublishedStays'
  BY FileConstants DEF IInv, TypeOK, PublishedStays, Later, Procs
<1>6. OneFile'
  BY FileConstants DEF IInv, TypeOK, FilesTyped, OneFile, ReaderSound, Procs
<1> QED  BY <1>1, <1>2, <1>3, <1>4, <1>5, <1>6 DEF IInv

\* Whoever opens the record has a file with a name.
LEMMA OpenStep ==
    ASSUME IInv, NEW p \in Procs, Open(p)
    PROVE  IInv'
<1> USE DEF Open, Answered, Goto, fileVars, pastVars
<1>1. TypeOK' /\ FilesTyped'
  <2>1. TypeOK'
    <3>1. pc[p] = "open" /\ pc' \in [Procs -> Steps] /\ \A q \in Procs \ {p} : pc'[q] = pc[q]
      BY DEF IInv, TypeOK, Steps
    <3>2. \A w \in Writers : pc'[w] \in {"ok", "failed"} /\ mine[w] # 0 => ~inodes[mine[w]].temporary
      BY <3>1 DEF IInv, TypeOK, WriterSound, Procs
    <3> QED  BY <3>1, <3>2 DEF IInv, TypeOK
  <2>2. record \in Nat /\ DOMAIN seen' = Procs /\ opened' \in [Procs -> Nat]
    BY Numbered DEF IInv, TypeOK, FilesTyped
  <2> QED  BY <2>1, <2>2 DEF IInv, FilesTyped, Named
<1>2. NamedIsWhole' /\ TemporaryIsOwn'
  BY DEF IInv, NamedIsWhole, Named, TemporaryIsOwn, TypeOK
<1>3. \A u \in Writers : WriterSound(u)'
  BY FileConstants DEF IInv, TypeOK, WriterSound, Named, Procs
<1>4. \A q \in Procs : ReaderSound(q)'
  BY FileConstants DEF IInv, TypeOK, FilesTyped, ReaderSound, Named, Procs
<1>5. PublishedStays'
  BY FileConstants DEF IInv, TypeOK, PublishedStays, Later, Procs
<1>6. OneFile'
  BY FileConstants DEF IInv, TypeOK, FilesTyped, OneFile, ReaderSound, Procs
<1> QED  BY <1>1, <1>2, <1>3, <1>4, <1>5, <1>6 DEF IInv

\* A process that dies leaves what it published, and a temporary that is nobody's.
LEMMA RestartedStep ==
    ASSUME IInv, NEW p \in Procs, Restarted(p)
    PROVE  IInv'
<1> USE DEF Restarted, Goto, fileVars, pastVars
<1>1. TypeOK' /\ FilesTyped'
  <2>1. pc' \in [Procs -> Steps] /\ mine' \in [Writers -> 0..MaxInodes] /\ publisher' \subseteq Writers
    BY FileConstants DEF IInv, TypeOK, Steps, Procs
  <2>2. TypeOK'
    BY <2>1 DEF IInv, TypeOK, Procs
  <2>3. opened' \in [Procs -> Nat] /\ DOMAIN seen' = Procs
    BY DEF IInv, FilesTyped
  <2> QED  BY <2>2, <2>3 DEF IInv, FilesTyped, Named
<1>2. NamedIsWhole' /\ TemporaryIsOwn'
  BY DEF IInv, NamedIsWhole, Named, TemporaryIsOwn, TypeOK
<1>3. \A u \in Writers : WriterSound(u)'
  BY FileConstants DEF IInv, TypeOK, WriterSound, Named, Procs
<1>4. \A q \in Procs : ReaderSound(q)'
  BY FileConstants DEF IInv, TypeOK, FilesTyped, ReaderSound, Named, Procs
<1>5. PublishedStays'
  BY FileConstants DEF IInv, TypeOK, PublishedStays, Later, Procs
<1>6. OneFile'
  BY FileConstants DEF IInv, TypeOK, FilesTyped, OneFile, ReaderSound, Procs
<1> QED  BY <1>1, <1>2, <1>3, <1>4, <1>5, <1>6 DEF IInv

\* What is accepted is what the record says.
LEMMA CheckStep ==
    ASSUME IInv, NEW p \in Procs, Check(p)
    PROVE  IInv'
<1> USE DEF Check, Answered, Goto, fileVars
<1>1. /\ UNCHANGED <<mode, value, dir, inodes, record, kept, published, mine, publisher, losses>>
      /\ Named' = Named /\ pc[p] = "check" /\ \E s \in {"idle", "ok", "failed"} : pc' = [pc EXCEPT ![p] = s]
      /\ p \in Readers \/ \E s \in {"ok", "failed"} : pc' = [pc EXCEPT ![p] = s]
      /\ opened' = [opened EXCEPT ![p] = 0] /\ seen' = [seen EXCEPT ![p] = <<0, 0>>]
  BY DEF Named
<1>2. /\ accepted' \subseteq accepted \cup {inodes[opened[p]].bytes}
      /\ acked' \subseteq acked \cup (IF p \in publisher THEN {mine[p]} ELSE {})
  BY DEF Expected
<1>3. opened[p] \in Named /\ inodes[opened[p]].bytes \in Values /\ record # 0
  BY <1>1 DEF IInv, ReaderSound, NamedIsWhole
<1>4. p \in publisher => p \in Writers /\ mine[p] \in Named
  BY DEF IInv, TypeOK, WriterSound
<1> USE DEF IInv
<1>5. TypeOK'
  <2>1. pc' \in [Procs -> Steps]
    BY <1>1 DEF TypeOK, Steps
  <2>2. \A w \in Writers : pc'[w] \in {"ok", "failed"} /\ mine'[w] # 0 => ~inodes'[mine'[w]].temporary
    BY <1>1 DEF TypeOK, WriterSound
  <2> QED  BY <1>1, <2>1, <2>2 DEF TypeOK
<1>6. FilesTyped'
  BY <1>1, <1>2, <1>3, <1>4 DEF FilesTyped
<1>7. NamedIsWhole' /\ TemporaryIsOwn'
  BY <1>1 DEF NamedIsWhole, TemporaryIsOwn
<1>8. \A w \in Writers : WriterSound(w)'
  BY <1>1, FileConstants DEF WriterSound, TypeOK
<1>9. \A q \in Procs : ReaderSound(q)'
  BY <1>1 DEF ReaderSound, TypeOK, FilesTyped
<1>10. PublishedStays'
  <2>1. \A k \in DOMAIN published : p \in publisher /\ published[k] = mine[p] => Later(k, record) /\ Later(k, kept)
    BY <1>1 DEF PublishedStays
  <2>2. \A k \in DOMAIN published : published[k] \in acked' => Later(k, record) /\ Later(k, kept)
    BY <1>2, <2>1 DEF PublishedStays
  <2>3. \A w \in publisher : pc'[w] \in {"stat", "open", "check"} => pc[w] \in {"stat", "open", "check"}
    BY <1>1 DEF TypeOK
  <2> QED  BY <1>1, <2>2, <2>3 DEF PublishedStays, Later
<1>11. OneFile'
  <2>1. mode # "atomic" => \A b \in accepted' : b = inodes[record].bytes
    BY <1>1, <1>2 DEF OneFile
  <2>2. mode # "atomic" => acked' \subseteq {record} /\ (acked' # {} => kept = record)
    BY <1>1, <1>2, <1>4 DEF OneFile
  <2>3. mode # "atomic" => \A q \in Procs : pc'[q] = "check" => opened'[q] = record
    BY <1>1 DEF OneFile, TypeOK, FilesTyped
  <2>4. mode # "atomic" => \A w \in publisher : pc'[w] \in {"stat", "open", "check"} => kept = record
    BY <1>1 DEF OneFile, TypeOK
  <2> QED  BY <1>1, <1>3, <2>1, <2>2, <2>3, <2>4 DEF OneFile
<1> QED  BY <1>5, <1>6, <1>7, <1>8, <1>9, <1>10, <1>11

\* A power loss spoils files without a name only, and brings back a name that was synced.
LEMMA PowerLossStep ==
    ASSUME IInv, PowerLoss
    PROVE  IInv'
<1> USE DEF PowerLoss
<1>1. /\ UNCHANGED <<mode, value, dir, published, acked>> /\ Named' = Named
      /\ record' \in {record, kept} /\ kept' = record'
      /\ pc' = [p \in Procs |-> "idle"] /\ mine' = [w \in Writers |-> 0] /\ publisher' = {}
      /\ seen' = [p \in Procs |-> <<0, 0>>] /\ opened' = [p \in Procs |-> 0] /\ accepted' = {}
      /\ losses < MaxPowerLosses /\ losses' = losses + 1
  BY DEF Named
<1>2. /\ inodes' \in Seq(Inode) /\ Len(inodes') = Len(inodes)
      /\ \A i \in 1..Len(inodes) : inodes[i].durable => inodes'[i] = inodes[i]
  <2>1. \A i \in 1..Len(inodes) : inodes[i] \in Inode /\ [inodes[i] EXCEPT !.bytes = "partial"] \in Inode
    <3> SUFFICES ASSUME NEW i \in 1..Len(inodes)
                 PROVE  inodes[i] \in Inode /\ [inodes[i] EXCEPT !.bytes = "partial"] \in Inode
      OBVIOUS
    <3> HIDE DEF PowerLoss
    <3>1. inodes[i] \in Inode
      BY Numbered, ElementOfSeq
    <3> QED  BY <3>1 DEF Inode
  <2>2. inodes' \in [1..Len(inodes) -> Inode]
    BY <2>1, Numbered
  <2> QED  BY <2>2, Numbered
<1> HIDE DEF PowerLoss
<1> USE DEF IInv
<1>3. TypeOK'
  BY <1>1, <1>2, FileConstants DEF TypeOK, Inode, Steps
<1>4. FilesTyped'
  BY <1>1, <1>2 DEF FilesTyped
<1>5. NamedIsWhole' /\ TemporaryIsOwn'
  BY <1>1, <1>2, Numbered DEF NamedIsWhole, TemporaryIsOwn
<1>6. \A w \in Writers : WriterSound(w)'
  BY <1>1, <1>2, Numbered DEF WriterSound, Procs
<1>7. \A q \in Procs : ReaderSound(q)'
  BY <1>1 DEF ReaderSound
<1>8. PublishedStays'
  BY <1>1 DEF PublishedStays, Later
<1>9. OneFile'
  BY <1>1 DEF OneFile
<1> QED  BY <1>3, <1>4, <1>5, <1>6, <1>7, <1>8, <1>9

-----------------------------------------------------------------------------
\* The invariant holds at first.
LEMMA Initially == Init => IInv
<1> SUFFICES ASSUME Init PROVE IInv
  OBVIOUS
<1> USE FileConstants DEF Init
<1>1. Named = {} /\ inodes \in Seq(Inode) /\ published \in Seq(1..Len(inodes)) /\ Len(inodes) = 0
  BY DEF Named, Range
<1>2. TypeOK
  BY <1>1 DEF TypeOK, Inode, Procs, Steps
<1>3. FilesTyped /\ NamedIsWhole /\ TemporaryIsOwn
  BY <1>1 DEF FilesTyped, NamedIsWhole, TemporaryIsOwn, Procs
<1>4. (\A w \in Writers : WriterSound(w)) /\ \A p \in Procs : ReaderSound(p)
  BY <1>1 DEF WriterSound, ReaderSound, Procs
<1>5. PublishedStays /\ OneFile
  BY DEF PublishedStays, OneFile
<1> QED  BY <1>2, <1>3, <1>4, <1>5 DEF IInv

\* One call, failure, crash or power loss.
LEMMA Inductive == IInv /\ [Next]_vars => IInv'
<1> SUFFICES ASSUME IInv, [Next]_vars PROVE IInv'
  OBVIOUS
<1>1. CASE UNCHANGED vars
  <2>1. Named' = Named /\ \A k, i : Later(k, i)' = Later(k, i)
    BY <1>1 DEF Named, Later, vars, fileVars
  <2>2. TypeOK' /\ FilesTyped' /\ NamedIsWhole' /\ TemporaryIsOwn'
    BY <1>1, <2>1 DEF IInv, TypeOK, FilesTyped, NamedIsWhole, TemporaryIsOwn, vars, fileVars, procVars, pastVars
  <2>3. (\A w \in Writers : WriterSound(w)') /\ \A p \in Procs : ReaderSound(p)'
    BY <1>1, <2>1 DEF IInv, WriterSound, ReaderSound, vars, fileVars, procVars, pastVars
  <2>4. PublishedStays' /\ OneFile'
    BY <1>1 DEF IInv, PublishedStays, Later, OneFile, vars, fileVars, procVars, pastVars
  <2> QED  BY <2>2, <2>3, <2>4 DEF IInv
<1>2. ASSUME NEW w \in Writers,
             \/ Mkdir(w) \/ Chmod(w) \/ OpenTemporary(w) \/ WriteTemporary(w) \/ Link(w)
             \/ Unlink(w) \/ Rename(w) \/ SyncDirectory(w) \/ Fail(w) \/ Again(w)
      PROVE  IInv'
  BY <1>2, MkdirStep, ChmodStep, OpenTemporaryStep, WriteTemporaryStep, LinkStep, UnlinkStep,
     RenameStep, SyncDirectoryStep, FailStep, RestartedStep DEF Again, Procs
<1>3. ASSUME NEW p \in Procs, Stat(p) \/ Open(p) \/ Check(p) \/ Crash(p)
      PROVE  IInv'
  BY <1>3, StatStep, OpenStep, CheckStep, RestartedStep DEF Crash
<1>4. CASE PowerLoss
  BY <1>4, PowerLossStep
<1> QED  BY <1>1, <1>2, <1>3, <1>4 DEF Next

\* IInv holds in every state.
LEMMA Invariance == Spec => []IInv
BY Initially, Inductive, PTL DEF Spec

-----------------------------------------------------------------------------
\* Every state has the declared types, and a write that ended by itself, however it ended, has
\* left no temporary behind (writeFileAtomic's and writeFileExclusive's cleanup).
THEOREM TypeCorrect == Spec => []TypeOK
BY Invariance, PTL DEF IInv

\* writeTemporary: whatever dies and whenever the power fails, nobody accepts a torn write, and
\* the record's name never leads to one.
THEOREM ReadersSeeWholeWrites == Spec => []RecordIsWhole
<1>1. IInv => RecordIsWhole
  BY FileConstants DEF IInv, FilesTyped, NamedIsWhole, RecordIsWhole
<1> QED  BY <1>1, Invariance, PTL

\* writeFileExclusive, syncDirectory: what a publisher answered for survives every power loss,
\* or something published later does.
THEOREM AcknowledgedWritesSurvive == Spec => []AcknowledgedSurvives
<1>1. IInv => AcknowledgedSurvives
  BY DEF IInv, PublishedStays, Later, AcknowledgedSurvives
<1> QED  BY <1>1, Invariance, PTL

\* writeFileExclusive, boundedDescriptorRead: an immutable record says one thing to everybody,
\* however many writers race for its name.
THEOREM ImmutableRecordsDoNotChange == Spec => []ImmutableRecord
<1>1. IInv => ImmutableRecord
  <2> SUFFICES ASSUME IInv, mode # "atomic"
               PROVE  Cardinality(accepted \cup {inodes[i].bytes : i \in acked}) <= 1
    BY DEF ImmutableRecord
  <2>1. accepted \cup {inodes[i].bytes : i \in acked} \in SUBSET {inodes[record].bytes}
    BY DEF IInv, OneFile
  <2>2. /\ IsFiniteSet({inodes[record].bytes})
        /\ Cardinality({inodes[record].bytes}) = 1
    BY FS_Singleton
  <2>3. /\ Cardinality(accepted \cup {inodes[i].bytes : i \in acked}) \in Nat
        /\ Cardinality(accepted \cup {inodes[i].bytes : i \in acked}) <= Cardinality({inodes[record].bytes})
    BY <2>1, <2>2, FS_Subset, FS_CardinalityType
  <2> QED  BY <2>2, <2>3
<1> QED  BY <1>1, Invariance, PTL
=============================================================================
