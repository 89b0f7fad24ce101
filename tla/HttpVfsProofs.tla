--------------------------- MODULE HttpVfsProofs ---------------------------
(***************************************************************************)
(* The HTTP file system for files, caches and prefetches of any size, and  *)
(* any number of failing requests.                                         *)
(***************************************************************************)
EXTENDS HttpVfs, SequenceTheorems, TLAPS

\* What is known once the server has answered a range.
Sized == data \/ (have_meta /\ (tells => content_length = Pages))

\* A page in the cache is as it was asked for.
Genuine(c, p) == \A j \in DOMAIN c : c[j].page = p => c[j].body = p

\* Where the running call stands with the file.
FileInv ==
  /\ data \/ pc # "idle" => open
  /\ ~open => k = 1 /\ last.rc # "ok"
  /\ downloads = IF data THEN 1 ELSE 0
  /\ data => fallback_full /\ server # "ranges"
  /\ pc \in {"head", "probe"} => ~have_meta /\ ~data
  /\ pc = "page" => have_meta /\ ~data
  /\ cache # <<>> \/ pc = "prefetch" \/ header \/ last.rc = "ok" => Sized

\* A server without ranges gives nothing before the file has been downloaded.
WholeInv ==
  /\ server = "whole" /\ ~data =>
       cache = <<>> /\ pc # "prefetch" /\ ~header /\ last.rc # "ok"
  /\ ~header => asked = 1

\* What the reader gets from a server that treats all ranges alike.
SteadyInv ==
  server # "mixed" =>
    /\ pc = "prefetch" => Genuine(cache, asked)
    /\ prefetch_pages < Capacity /\ last.rc = "ok" => last.body = last.page

\* Each page that is prefetched pushes the page asked one place further, and a
\* prefetch shorter than the cache ends before that is beyond its end.
PlaceInv ==
  pc = "prefetch" /\ prefetch_pages < Capacity =>
    \E j \in DOMAIN cache : j <= k /\ cache[j].page = asked

IInv == TypeOK /\ FileInv /\ WholeInv /\ SteadyInv /\ PlaceInv /\ CacheIsTheFile

Entry == [page : Nat, body : Page]

----------------------------------------------------------------------------
(* The cache *)

\* A page inserted is the first; the others follow in their order, but for the
\* last one of a full cache.
LEMMA Inserted ==
  ASSUME cache \in Seq(Entry), Len(cache) <= Capacity, NEW p \in Nat, NEW body \in Page
  PROVE  LET c == Insert(p, body)
             n == IF Len(cache) = Capacity THEN Capacity ELSE Len(cache) + 1
         IN  /\ c \in Seq(Entry) /\ Len(c) = n /\ n <= Capacity
             /\ c[1] = [page |-> p, body |-> body]
             /\ \A j \in 2..n : j - 1 \in 1..Len(cache) /\ c[j] = cache[j - 1]
<1> DEFINE e == [page |-> p, body |-> body]
           rest == IF Len(cache) = Capacity THEN Front(cache) ELSE cache
           m == IF Len(cache) = Capacity THEN Capacity - 1 ELSE Len(cache)
<1>1. Capacity \in Nat /\ Capacity >= 2 /\ Len(cache) \in Nat /\ m \in Nat /\ m <= Len(cache)
  BY ConstantsAssumption
<1>2. rest \in Seq(Entry) /\ Len(rest) = m /\ \A j \in 1..m : rest[j] = cache[j]
  <2>1. CASE Len(cache) = Capacity
    <3>1. SubSeq(cache, 1, m) \in Seq(Entry) /\ Len(SubSeq(cache, 1, m)) = m
      BY <1>1, <2>1
    <3>2. \A j \in 1..m : SubSeq(cache, 1, m)[j] = cache[j]
      BY <1>1, <2>1
    <3>3. rest = SubSeq(cache, 1, m)
      BY <2>1 DEF Front
    <3> QED BY <3>1, <3>2, <3>3
  <2>2. CASE Len(cache) # Capacity
    BY <2>2
  <2> QED BY <2>1, <2>2
<1>3. e \in Entry /\ <<e>> \in Seq(Entry) /\ Len(<<e>>) = 1 /\ <<e>>[1] = e
  BY DEF Entry
<1>4. Insert(p, body) = <<e>> \o rest
  BY DEF Insert
<1> HIDE DEF e, rest
<1>5. /\ <<e>> \o rest \in Seq(Entry) /\ Len(<<e>> \o rest) = 1 + m
      /\ (<<e>> \o rest)[1] = e
      /\ \A j \in 2..(1 + m) : (<<e>> \o rest)[j] = rest[j - 1]
  BY <1>1, <1>2, <1>3
<1> QED BY <1>1, <1>2, <1>4, <1>5 DEF e

\* A hit takes the page out of its place and puts it first.
LEMMA MovedToFront ==
  ASSUME cache \in Seq(Entry), NEW q \in 1..Len(cache)
  PROVE  LET c == <<cache[q]>> \o RemoveAt(cache, q)
         IN  /\ c \in Seq(Entry) /\ Len(c) = Len(cache)
             /\ \A j \in 1..Len(cache) : c[j] = cache[IF j = 1 THEN q ELSE IF j <= q THEN j - 1 ELSE j]
<1> DEFINE front == SubSeq(cache, 1, q - 1)
           back == SubSeq(cache, q + 1, Len(cache))
<1>1. Len(cache) \in Nat /\ q \in Nat /\ 1 <= q /\ q <= Len(cache)
  OBVIOUS
<1>2. front \in Seq(Entry) /\ Len(front) = q - 1 /\ \A j \in 1..(q - 1) : front[j] = cache[j]
  BY <1>1
<1>3. /\ back \in Seq(Entry) /\ Len(back) = Len(cache) - q
      /\ \A j \in 1..(Len(cache) - q) : back[j] = cache[q + j]
  BY <1>1
<1>4. RemoveAt(cache, q) = front \o back
  BY DEF RemoveAt
<1> HIDE DEF front, back
<1> DEFINE rest == front \o back
<1>5. /\ rest \in Seq(Entry) /\ Len(rest) = Len(cache) - 1
      /\ \A j \in 1..(Len(cache) - 1) : rest[j] = cache[IF j < q THEN j ELSE j + 1]
  <2>1. /\ rest \in Seq(Entry) /\ Len(rest) = Len(cache) - 1
        /\ \A j \in 1..(Len(cache) - 1) :
             rest[j] = IF j <= q - 1 THEN front[j] ELSE back[j - (q - 1)]
    <3>1. /\ rest \in Seq(Entry) /\ Len(rest) = Len(front) + Len(back)
          /\ \A j \in 1..(Len(front) + Len(back)) :
               rest[j] = IF j <= Len(front) THEN front[j] ELSE back[j - Len(front)]
      BY <1>2, <1>3, ConcatProperties
    <3> HIDE DEF rest
    <3>2. Len(front) = q - 1 /\ Len(front) + Len(back) = Len(cache) - 1
      BY <1>1, <1>2, <1>3
    <3> QED BY <3>1, <3>2
  <2> HIDE DEF rest
  <2>2. ASSUME NEW j \in 1..(Len(cache) - 1)
        PROVE  rest[j] = cache[IF j < q THEN j ELSE j + 1]
    <3>1. CASE j < q
      BY <1>1, <1>2, <2>1, <3>1
    <3>2. CASE j >= q
      <4>1. j - (q - 1) \in 1..(Len(cache) - q) /\ q + (j - (q - 1)) = j + 1
        BY <1>1, <3>2
      <4> QED BY <1>1, <1>3, <2>1, <3>2, <4>1
    <3> QED BY <1>1, <3>1, <3>2
  <2> QED BY <2>1, <2>2
<1> HIDE DEF rest
<1>6. cache[q] \in Entry
  BY <1>1
<1>7. /\ <<cache[q]>> \o rest \in Seq(Entry) /\ Len(<<cache[q]>> \o rest) = Len(cache)
      /\ (<<cache[q]>> \o rest)[1] = cache[q]
      /\ \A j \in 2..Len(cache) : (<<cache[q]>> \o rest)[j] = rest[j - 1]
  BY <1>1, <1>5, <1>6
<1> DEFINE c == <<cache[q]>> \o rest
<1> HIDE DEF c
<1>8. ASSUME NEW j \in 1..Len(cache)
      PROVE  c[j] = cache[IF j = 1 THEN q ELSE IF j <= q THEN j - 1 ELSE j]
  <2>1. CASE j = 1
    BY <1>7, <2>1 DEF c
  <2>2. CASE j # 1
    <3>1. j \in 2..Len(cache) /\ j - 1 \in 1..(Len(cache) - 1) /\ (j - 1 < q <=> j <= q)
          /\ (j - 1) + 1 = j
      BY <1>1, <2>2
    <3>2. c[j] = rest[j - 1] /\ rest[j - 1] = cache[IF j - 1 < q THEN j - 1 ELSE (j - 1) + 1]
      BY <1>5, <1>7, <3>1 DEF c
    <3> QED BY <2>2, <3>1, <3>2
  <2> QED BY <2>1, <2>2
<1> QED BY <1>4, <1>7, <1>8 DEF c, rest

\* Every page once, and as what it is.
Clean(c) ==
  \A j \in DOMAIN c : /\ c[j].body = c[j].page
                      /\ \A l \in DOMAIN c : c[l].page = c[j].page => l = j

LEMMA InsertKeepsClean ==
  ASSUME cache \in Seq(Entry), Len(cache) <= Capacity, Clean(cache),
         NEW p \in Page, ~Cached(p)
  PROVE  Clean(Insert(p, p))
<1> DEFINE c == Insert(p, p)
           n == IF Len(cache) = Capacity THEN Capacity ELSE Len(cache) + 1
<1>1. p \in Nat /\ Len(cache) \in Nat /\ n \in Nat
  BY ConstantsAssumption DEF Page
<1>2. /\ c \in Seq(Entry) /\ Len(c) = n
      /\ c[1] = [page |-> p, body |-> p]
      /\ \A j \in 2..n : j - 1 \in 1..Len(cache) /\ c[j] = cache[j - 1]
  BY <1>1, Inserted
<1> HIDE DEF c, n
<1>3. DOMAIN c = 1..n /\ DOMAIN cache = 1..Len(cache)
  BY <1>2
<1>4. ASSUME NEW j \in 1..n
      PROVE  /\ c[j].body = c[j].page
             /\ \A l \in 1..n : c[l].page = c[j].page => l = j
  <2>1. CASE j = 1
    <3>1. c[j].body = p /\ c[j].page = p
      BY <1>2, <2>1
    <3>2. ASSUME NEW l \in 1..n, c[l].page = p, l # 1 PROVE FALSE
      <4>1. l \in 2..n
        BY <3>2, <1>1
      <4> QED BY <1>2, <1>3, <3>2, <4>1 DEF Cached
    <3> QED BY <2>1, <3>1, <3>2
  <2>2. CASE j # 1
    <3>1. j \in 2..n
      BY <2>2, <1>1
    <3>2. j - 1 \in DOMAIN cache /\ c[j] = cache[j - 1]
      BY <1>2, <1>3, <3>1
    <3>3. c[j].body = c[j].page
      BY <3>2 DEF Clean
    <3>4. ASSUME NEW l \in 1..n, c[l].page = c[j].page PROVE l = j
      <4>1. CASE l = 1
        <5>1. cache[j - 1].page = p
          BY <1>2, <3>2, <3>4, <4>1
        <5> QED BY <3>2, <5>1 DEF Cached
      <4>2. CASE l # 1
        <5>1. l \in 2..n
          BY <4>2, <1>1
        <5>2. l - 1 \in DOMAIN cache /\ c[l] = cache[l - 1]
          BY <1>2, <1>3, <5>1
        <5>3. l - 1 = j - 1
          BY <3>2, <3>4, <5>2 DEF Clean
        <5> QED BY <5>1, <3>1, <5>3, <1>1
      <4> QED BY <4>1, <4>2
    <3> QED BY <3>3, <3>4
  <2> QED BY <2>1, <2>2
<1> QED BY <1>3, <1>4 DEF Clean, c

\* A page inserted is not taken for another one.
LEMMA InsertKeepsGenuine ==
  ASSUME cache \in Seq(Entry), Len(cache) <= Capacity,
         NEW q \in Nat, NEW body \in Page, NEW p, q # p \/ body = p, Genuine(cache, p)
  PROVE  Genuine(Insert(q, body), p)
<1> DEFINE c == Insert(q, body)
           n == IF Len(cache) = Capacity THEN Capacity ELSE Len(cache) + 1
<1>1. /\ c \in Seq(Entry) /\ Len(c) = n /\ c[1] = [page |-> q, body |-> body]
      /\ \A j \in 2..n : j - 1 \in 1..Len(cache) /\ c[j] = cache[j - 1]
  BY Inserted
<1> HIDE DEF c, n
<1>2. DOMAIN c = 1..n /\ DOMAIN cache = 1..Len(cache) /\ n \in Nat
  BY <1>1
<1>3. ASSUME NEW j \in 1..n, c[j].page = p PROVE c[j].body = p
  <2>1. CASE j = 1
    BY <1>1, <1>3, <2>1
  <2>2. CASE j # 1
    <3>1. j \in 2..n
      BY <1>2, <2>2
    <3> QED BY <1>1, <1>2, <1>3, <3>1 DEF Genuine
  <2> QED BY <2>1, <2>2
<1> QED BY <1>2, <1>3 DEF Genuine, c

LEMMA MoveKeepsClean ==
  ASSUME cache \in Seq(Entry), Clean(cache), NEW q \in 1..Len(cache)
  PROVE  Clean(<<cache[q]>> \o RemoveAt(cache, q))
<1> DEFINE c == <<cache[q]>> \o RemoveAt(cache, q)
           was(j) == IF j = 1 THEN q ELSE IF j <= q THEN j - 1 ELSE j
<1>1. /\ c \in Seq(Entry) /\ Len(c) = Len(cache)
      /\ \A j \in 1..Len(cache) : c[j] = cache[was(j)]
  BY MovedToFront
<1> HIDE DEF c
<1>2. /\ DOMAIN c = 1..Len(cache) /\ DOMAIN cache = 1..Len(cache) /\ Len(cache) \in Nat
  BY <1>1
<1>3. /\ \A j \in 1..Len(cache) : was(j) \in 1..Len(cache)
      /\ \A j, l \in 1..Len(cache) : was(j) = was(l) => j = l
  BY <1>2
<1> HIDE DEF was
<1>4. ASSUME NEW j \in 1..Len(cache)
      PROVE  /\ c[j].body = c[j].page
             /\ \A l \in 1..Len(cache) : c[l].page = c[j].page => l = j
  <2>1. was(j) \in DOMAIN cache /\ c[j] = cache[was(j)]
    BY <1>1, <1>2, <1>3
  <2>2. c[j].body = c[j].page
    BY <2>1 DEF Clean
  <2>3. ASSUME NEW l \in 1..Len(cache), c[l].page = c[j].page PROVE l = j
    <3>1. was(l) \in DOMAIN cache /\ c[l] = cache[was(l)]
      BY <1>1, <1>2, <1>3
    <3>2. was(l) = was(j)
      BY <2>1, <2>3, <3>1 DEF Clean
    <3> QED BY <1>3, <3>2
  <2> QED BY <2>2, <2>3
<1> QED BY <1>2, <1>4 DEF Clean, c

----------------------------------------------------------------------------
(* Requests *)

LEMMA RequestSucceeds ==
  ASSUME TypeOK, NEW p, NEW body, FetchRange(p, TRUE, body)
  PROVE  \/ /\ server # "whole" /\ p <= Pages /\ body = p
            /\ content_length' \in {-1, Pages} /\ (tells => content_length' = Pages)
            /\ data' = data /\ downloads' = downloads /\ faults' = faults
         \/ /\ server # "ranges" /\ fallback_full /\ ~data /\ body = 1
            /\ content_length' = content_length /\ data' = TRUE
            /\ downloads' = downloads + 1 /\ faults' = faults
<1>1. Known \subseteq {-1, Pages} /\ (tells => Known = {Pages})
  BY ConstantsAssumption DEF TypeOK, Known
<1> QED BY <1>1 DEF FetchRange, MayDownload

LEMMA RequestFails ==
  ASSUME TypeOK, NEW p, FetchRange(p, FALSE, 1)
  PROVE  /\ content_length' = content_length /\ data' = data /\ downloads' = downloads
         /\ faults' \in 0..MaxFaults
<1>1. content_length' = content_length /\ data' = data /\ downloads' = downloads
  BY DEF FetchRange
<1>2. faults' = faults \/ Fail
  BY DEF FetchRange
<1>3. faults' \in 0..MaxFaults
  BY <1>2, ConstantsAssumption DEF Fail, TypeOK
<1> QED BY <1>1, <1>3

----------------------------------------------------------------------------
(* The actions *)

LEMMA EmptyCall ==
  /\ <<>> \in Seq([page : Nat, body : Page]) /\ Len(<<>>) <= Capacity
  /\ 1 \in Page /\ 0 \in 0..MaxFaults
  /\ \A n \in PrefetchChoices \cup {0} : n \in Nat /\ 1 \in 1..(n + 1)
  /\ None \in [page : Page, body : Page \cup {Freed}, rc : {"none", "ok", "error"}]
<1>1. /\ 1 \in Page /\ 0 \in 0..MaxFaults /\ 0 <= Capacity
      /\ \A n \in PrefetchChoices \cup {0} : n \in Nat /\ 1 \in 1..(n + 1)
  BY ConstantsAssumption DEF Page
<1>2. <<>> \in Seq([page : Nat, body : Page]) /\ Len(<<>>) = 0
  OBVIOUS
<1>3. None \in [page : Page, body : Page \cup {Freed}, rc : {"none", "ok", "error"}]
  BY <1>1 DEF None
<1> QED BY <1>1, <1>2, <1>3

LEMMA InvInit == Init => IInv
<1> SUFFICES ASSUME Init PROVE IInv
  OBVIOUS
<1>1. TypeOK
  BY EmptyCall DEF Init, TypeOK
<1>2. FileInv /\ WholeInv /\ SteadyInv /\ PlaceInv
  BY DEF Init, FileInv, WholeInv, SteadyInv, PlaceInv, None
<1>3. CacheIsTheFile
  BY DEF Init, CacheIsTheFile
<1> QED BY <1>1, <1>2, <1>3 DEF IInv

LEMMA OpenKeeps == IInv /\ (Open \/ Close) => IInv'
<1> SUFFICES ASSUME IInv, Open \/ Close PROVE IInv'
  OBVIOUS
<1>0. TypeOK /\ FileInv /\ WholeInv /\ SteadyInv /\ PlaceInv /\ CacheIsTheFile
  BY DEF IInv
<1>1. CASE Open
  <2>1. k = 1 /\ k' = k /\ prefetch_pages' \in PrefetchChoices
    BY <1>0, <1>1 DEF Open, FileInv, callVars
  <2>2. k' \in 1..(prefetch_pages' + 1)
    BY <2>1, EmptyCall
  <2>3. TypeOK'
    BY <1>0, <1>1, <2>1, <2>2 DEF Open, TypeOK, serverVars, metaVars, callVars
  <2>4. FileInv' /\ WholeInv' /\ SteadyInv' /\ PlaceInv' /\ CacheIsTheFile'
    BY <1>0, <1>1 DEF Open, serverVars, metaVars, callVars, FileInv, WholeInv, SteadyInv, PlaceInv,
                      CacheIsTheFile, Sized, Genuine
  <2> QED BY <2>3, <2>4 DEF IInv
<1>2. CASE Close
  <2>1. TypeOK'
    <3>1. k' \in 1..(prefetch_pages' + 1)
      BY <1>2 DEF Close
    <3> QED BY <1>0, <1>2, <3>1, EmptyCall DEF Close, TypeOK, serverVars
  <2>2. FileInv' /\ WholeInv' /\ SteadyInv' /\ PlaceInv'
    BY <1>2 DEF Close, FileInv, WholeInv, SteadyInv, PlaceInv, None
  <2>3. CacheIsTheFile'
    BY <1>2 DEF Close, CacheIsTheFile
  <2> QED BY <2>1, <2>2, <2>3 DEF IInv
<1> QED BY <1>1, <1>2

LEMMA ReadKeeps ==
  ASSUME IInv, NEW p \in Page, Read(p)
  PROVE  IInv'
<1>0. TypeOK /\ FileInv /\ WholeInv /\ SteadyInv /\ PlaceInv /\ CacheIsTheFile
  BY DEF IInv
<1>1. /\ open /\ pc = "idle" /\ (header \/ p = 1) /\ asked' = p /\ caller' = "read"
      /\ UNCHANGED <<server, tells, open, fallback_full, prefetch_pages, have_meta, content_length>>
      /\ UNCHANGED <<data, cache, k, downloads, faults, header>>
  BY DEF Read, serverVars, fileVars, metaVars
<1>2. CASE data
  <2>1. last' = [page |-> p, body |-> p, rc |-> "ok"] /\ pc' = "idle"
    BY <1>1, <1>2 DEF Read
  <2>2. TypeOK'
    BY <1>0, <1>1, <2>1 DEF TypeOK
  <2>3. FileInv' /\ WholeInv' /\ SteadyInv' /\ PlaceInv' /\ CacheIsTheFile'
    BY <1>0, <1>1, <1>2, <2>1 DEF FileInv, WholeInv, SteadyInv, PlaceInv, CacheIsTheFile, Sized, Genuine
  <2> QED BY <2>2, <2>3 DEF IInv
<1>3. CASE ~data
  <2>1. last' = last /\ pc' = IF have_meta THEN "page" ELSE "head"
    BY <1>3 DEF Read
  <2>2. TypeOK'
    BY <1>0, <1>1, <2>1 DEF TypeOK
  <2>3. FileInv' /\ WholeInv' /\ SteadyInv' /\ PlaceInv' /\ CacheIsTheFile'
    BY <1>0, <1>1, <1>3, <2>1 DEF FileInv, WholeInv, SteadyInv, PlaceInv, CacheIsTheFile, Sized, Genuine
  <2> QED BY <2>2, <2>3 DEF IInv
<1> QED BY <1>2, <1>3

LEMMA ProbeKeeps == IInv /\ (SizeProbe \/ ProbeHead \/ ProbeRange \/ ProbeFails) => IInv'
<1> SUFFICES ASSUME IInv, SizeProbe \/ ProbeHead \/ ProbeRange \/ ProbeFails PROVE IInv'
  OBVIOUS
<1>0. TypeOK /\ FileInv /\ WholeInv /\ SteadyInv /\ PlaceInv /\ CacheIsTheFile
  BY DEF IInv
<1>1. CASE SizeProbe
  <2>1. TypeOK'
    BY <1>0, <1>1 DEF SizeProbe, TypeOK, serverVars, fileVars, metaVars
  <2>2. FileInv' /\ WholeInv' /\ SteadyInv' /\ PlaceInv' /\ CacheIsTheFile'
    BY <1>0, <1>1 DEF SizeProbe, serverVars, fileVars, metaVars, FileInv, WholeInv, SteadyInv, PlaceInv,
                      CacheIsTheFile, Sized, Genuine
  <2> QED BY <2>1, <2>2 DEF IInv
<1>2. CASE ProbeHead
  <2>1. TypeOK'
    BY <1>0, <1>2 DEF ProbeHead, TypeOK, serverVars, fileVars
  <2>2. FileInv' /\ WholeInv' /\ SteadyInv' /\ PlaceInv' /\ CacheIsTheFile'
    BY <1>0, <1>2 DEF ProbeHead, serverVars, fileVars, FileInv, WholeInv, SteadyInv, PlaceInv,
                      CacheIsTheFile, Sized, Genuine
  <2> QED BY <2>1, <2>2 DEF IInv
<1>3. CASE ProbeRange
  <2>1. TypeOK'
    BY <1>0, <1>3, ConstantsAssumption DEF ProbeRange, TypeOK, serverVars, fileVars
  <2>2. FileInv' /\ WholeInv' /\ SteadyInv' /\ PlaceInv' /\ CacheIsTheFile'
    BY <1>0, <1>3 DEF ProbeRange, serverVars, fileVars, FileInv, WholeInv, SteadyInv, PlaceInv,
                      CacheIsTheFile, Sized, Genuine
  <2> QED BY <2>1, <2>2 DEF IInv
<1>4. CASE ProbeFails
  <2>1. /\ pc = "probe" /\ pc' = "idle" /\ faults' \in 0..MaxFaults
        /\ UNCHANGED <<server, tells, open, fallback_full, prefetch_pages, have_meta, content_length>>
        /\ UNCHANGED <<data, cache, caller, asked, k, downloads>>
    BY <1>0, <1>4, ConstantsAssumption DEF ProbeFails, Fail, Return, TypeOK, serverVars, fileVars, metaVars
  <2>2. \/ last' = last /\ header' = header
        \/ last' = [page |-> asked, body |-> 1, rc |-> "error"] /\ header' = header
    BY <1>0, <1>4 DEF ProbeFails, Return, TypeOK
  <2>3. TypeOK'
    BY <1>0, <2>1, <2>2, ConstantsAssumption DEF TypeOK, Page
  <2>4. FileInv' /\ WholeInv' /\ SteadyInv' /\ PlaceInv' /\ CacheIsTheFile'
    BY <1>0, <2>1, <2>2 DEF FileInv, WholeInv, SteadyInv, PlaceInv, CacheIsTheFile, Sized, Genuine
  <2> QED BY <2>3, <2>4 DEF IInv
<1> QED BY <1>1, <1>2, <1>3, <1>4

\* A hit: the page goes to the front, and the reader gets its contents.
LEMMA HitKeeps == IInv /\ Hit => IInv'
<1> SUFFICES ASSUME IInv, Hit PROVE IInv'
  OBVIOUS
<1>0. TypeOK /\ FileInv /\ WholeInv /\ SteadyInv /\ PlaceInv /\ CacheIsTheFile
  BY DEF IInv
<1> DEFINE q == Position(asked)
<1>1. /\ pc = "page" /\ pc' = "idle"
      /\ cache' = <<cache[q]>> \o RemoveAt(cache, q)
      /\ last' = [page |-> asked, body |-> cache[q].body, rc |-> "ok"] /\ header' = TRUE
      /\ UNCHANGED <<server, tells, open, fallback_full, prefetch_pages, have_meta, content_length>>
      /\ UNCHANGED <<data, caller, asked, k, downloads, faults>>
  BY DEF Hit, Return, serverVars, fileVars, metaVars
<1>2. /\ cache \in Seq(Entry) /\ Len(cache) <= Capacity /\ ~data /\ have_meta
  BY <1>0, <1>1 DEF TypeOK, Entry, FileInv
<1>3. q \in DOMAIN cache /\ cache[q].page = asked
  BY DEF Hit, Cached, Position
<1>4. q \in 1..Len(cache)
  BY <1>2, <1>3
<1> HIDE DEF q
<1>5. cache[q] \in Entry /\ cache[q].body \in Page /\ cache[q].body = asked /\ cache # <<>>
  <2>1. cache[q] \in Entry
    BY <1>2, <1>4
  <2>2. cache[q].body = cache[q].page
    BY <1>0, <1>2, <1>3 DEF CacheIsTheFile
  <2>3. cache # <<>>
    BY <1>2, <1>4
  <2> QED BY <1>3, <2>1, <2>2, <2>3 DEF Entry
<1>6. cache' \in Seq(Entry) /\ Len(cache') <= Capacity
  BY <1>1, <1>2, <1>4, MovedToFront
<1>7. TypeOK'
  BY <1>0, <1>1, <1>5, <1>6 DEF TypeOK, Entry
<1>8. FileInv' /\ WholeInv' /\ SteadyInv' /\ PlaceInv'
  BY <1>0, <1>1, <1>2, <1>5 DEF FileInv, WholeInv, SteadyInv, PlaceInv, Sized, Genuine
<1>9. CacheIsTheFile'
  <2>1. Clean(cache)
    BY <1>0, <1>2 DEF CacheIsTheFile, Clean
  <2>2. Clean(cache')
    BY <1>1, <1>2, <1>4, <2>1, MoveKeepsClean
  <2> QED BY <2>2 DEF CacheIsTheFile, Clean
<1> QED BY <1>7, <1>8, <1>9 DEF IInv

\* A page that was not in the cache is put in front of it.
LEMMA MissKeeps == IInv /\ Miss => IInv'
<1> SUFFICES ASSUME IInv, Miss PROVE IInv'
  OBVIOUS
<1>0. TypeOK /\ FileInv /\ WholeInv /\ SteadyInv /\ PlaceInv /\ CacheIsTheFile
  BY DEF IInv
<1>1. PICK body \in Page : /\ FetchRange(asked, TRUE, body)
                           /\ cache' = Insert(asked, body)
  BY DEF Miss
<1>2. /\ pc = "page" /\ ~Cached(asked) /\ pc' = "prefetch" /\ k' = 1
      /\ UNCHANGED <<server, tells, open, fallback_full, prefetch_pages, have_meta>>
      /\ UNCHANGED <<caller, asked, header, last>>
  BY DEF Miss, serverVars, fileVars
<1>3. /\ cache \in Seq(Entry) /\ Len(cache) <= Capacity /\ ~data /\ have_meta /\ open
      /\ downloads = 0
  BY <1>0, <1>2 DEF TypeOK, Entry, FileInv
<1>4. asked \in Page /\ asked \in Nat
  BY <1>0, ConstantsAssumption DEF TypeOK, Page
<1>5. /\ cache' \in Seq(Entry) /\ Len(cache') <= Capacity /\ 1 \in DOMAIN cache'
      /\ cache'[1] = [page |-> asked, body |-> body]
  <2> DEFINE n == IF Len(cache) = Capacity THEN Capacity ELSE Len(cache) + 1
  <2>1. /\ cache' \in Seq(Entry) /\ Len(cache') = n /\ n <= Capacity
        /\ cache'[1] = [page |-> asked, body |-> body]
    BY <1>1, <1>3, <1>4, Inserted
  <2>2. n \in Nat /\ n >= 1
    BY <1>3, ConstantsAssumption
  <2> QED BY <2>1, <2>2
<1>6. \/ /\ server # "whole" /\ asked <= Pages /\ body = asked
         /\ content_length' \in {-1, Pages} /\ (tells => content_length' = Pages)
         /\ data' = data /\ downloads' = downloads /\ faults' = faults
      \/ /\ server # "ranges" /\ fallback_full /\ ~data /\ body = 1
         /\ content_length' = content_length /\ data' = TRUE
         /\ downloads' = downloads + 1 /\ faults' = faults
  BY <1>0, <1>1, RequestSucceeds
<1>7. TypeOK'
  <2>1. k' \in 1..(prefetch_pages' + 1)
    BY <1>0, <1>2, EmptyCall DEF TypeOK
  <2>2. data' \in BOOLEAN
    BY <1>0, <1>6 DEF TypeOK
  <2>3. /\ content_length' \in {-1, Pages} /\ downloads' \in Nat /\ faults' \in 0..MaxFaults
    BY <1>0, <1>6 DEF TypeOK
  <2> QED BY <1>0, <1>1, <1>2, <1>5, <2>1, <2>2, <2>3 DEF TypeOK, Entry
<1>8. FileInv'
  BY <1>0, <1>2, <1>3, <1>6 DEF FileInv, Sized
<1>9. WholeInv' /\ SteadyInv'
  <2>1. /\ server = "whole" => ~header /\ asked = 1 /\ last.rc # "ok"
        /\ ~header => asked = 1
    BY <1>0, <1>3 DEF WholeInv
  <2>2. server = "whole" => data' /\ body = 1
    BY <1>6
  <2>3. server \notin {"whole", "mixed"} => body = asked
    BY <1>0, <1>6 DEF TypeOK, Servers
  <2>4. WholeInv'
    BY <1>2, <2>1, <2>2 DEF WholeInv
  <2>5. server # "mixed" => body = asked
    BY <2>1, <2>2, <2>3, <1>3
  <2>6. Genuine(cache, asked)
    BY <1>2 DEF Genuine, Cached
  <2>7. server # "mixed" => Genuine(cache', asked)
    BY <1>1, <1>3, <1>4, <2>5, <2>6, InsertKeepsGenuine
  <2>8. SteadyInv'
    BY <1>0, <1>2, <2>7 DEF SteadyInv
  <2> QED BY <2>4, <2>8
<1>10. PlaceInv'
  BY <1>2, <1>5 DEF PlaceInv
<1>11. CacheIsTheFile'
  <2> SUFFICES ASSUME ~data' PROVE Clean(cache')
    BY DEF CacheIsTheFile, Clean
  <2>1. Clean(cache) /\ body = asked
    BY <1>0, <1>3, <1>6 DEF CacheIsTheFile, Clean
  <2> QED BY <1>1, <1>2, <1>3, <1>4, <2>1, InsertKeepsClean
<1> QED BY <1>7, <1>8, <1>9, <1>10, <1>11 DEF IInv

LEMMA MissFailsKeeps == IInv /\ MissFails => IInv'
<1> SUFFICES ASSUME IInv, MissFails PROVE IInv'
  OBVIOUS
<1>0. TypeOK /\ FileInv /\ WholeInv /\ SteadyInv /\ PlaceInv /\ CacheIsTheFile
  BY DEF IInv
<1>1. /\ pc = "page" /\ pc' = "idle" /\ FetchRange(asked, FALSE, 1)
      /\ last' = [page |-> asked, body |-> 1, rc |-> "error"]
      /\ UNCHANGED <<server, tells, open, fallback_full, prefetch_pages, have_meta>>
      /\ UNCHANGED <<cache, caller, asked, k>>
  BY DEF MissFails, Return, serverVars, fileVars
<1>2. header' = header
  BY <1>0 DEF MissFails, Return, TypeOK
<1>3. /\ content_length' = content_length /\ data' = data /\ downloads' = downloads
      /\ faults' \in 0..MaxFaults
  BY <1>0, <1>1, RequestFails
<1>4. TypeOK'
  BY <1>0, <1>1, <1>2, <1>3, EmptyCall DEF TypeOK
<1>5. FileInv' /\ WholeInv' /\ SteadyInv' /\ PlaceInv' /\ CacheIsTheFile'
  BY <1>0, <1>1, <1>2, <1>3 DEF FileInv, WholeInv, SteadyInv, PlaceInv, CacheIsTheFile, Sized, Genuine
<1> QED BY <1>4, <1>5 DEF IInv

\* The loop of the prefetch ends by itself.
LEMMA PrefetchIsShort ==
  ASSUME TypeOK, Prefetches, NextPage
  PROVE  /\ k \in Nat /\ k >= 1 /\ k' = k + 1 /\ k' \in 1..(prefetch_pages + 1)
         /\ prefetch_pages < Capacity => k < Capacity
<1>1. prefetch_pages \in Nat
  BY EmptyCall DEF TypeOK
<1>2. k \in 1..(prefetch_pages + 1) /\ k <= prefetch_pages /\ k' = k + 1
  BY DEF TypeOK, Prefetches, NextPage
<1> QED BY <1>1, <1>2, ConstantsAssumption

LEMMA PrefetchHitKeeps == IInv /\ PrefetchHit => IInv'
<1> SUFFICES ASSUME IInv, PrefetchHit PROVE IInv'
  OBVIOUS
<1>0. TypeOK /\ FileInv /\ WholeInv /\ SteadyInv /\ PlaceInv /\ CacheIsTheFile
  BY DEF IInv
<1>1. /\ pc = "prefetch" /\ pc' = "prefetch"
      /\ UNCHANGED <<server, tells, open, fallback_full, prefetch_pages, have_meta, content_length>>
      /\ UNCHANGED <<data, cache, caller, asked, header, last, downloads, faults>>
  BY DEF PrefetchHit, serverVars, fileVars, metaVars
<1>2. k \in Nat /\ k' = k + 1 /\ k' \in 1..(prefetch_pages + 1)
  BY <1>0, PrefetchIsShort DEF PrefetchHit
<1>3. TypeOK'
  BY <1>0, <1>1, <1>2 DEF TypeOK
<1>4. FileInv' /\ WholeInv' /\ SteadyInv' /\ CacheIsTheFile'
  BY <1>0, <1>1 DEF FileInv, WholeInv, SteadyInv, CacheIsTheFile, Sized, Genuine
<1>5. PlaceInv'
  <2> SUFFICES ASSUME prefetch_pages < Capacity PROVE PlaceInv'
    BY <1>1 DEF PlaceInv
  <2>1. PICK j \in DOMAIN cache : j <= k /\ cache[j].page = asked
    BY <1>0, <1>1 DEF PlaceInv
  <2>2. j \in Nat
    BY <1>0, <2>1 DEF TypeOK
  <2>3. j <= k'
    BY <1>2, <2>1, <2>2
  <2> QED BY <1>1, <2>1, <2>3 DEF PlaceInv
<1> QED BY <1>3, <1>4, <1>5 DEF IInv

\* A page read ahead moves the page asked one place back, and no further.
LEMMA PrefetchKeeps == IInv /\ Prefetch => IInv'
<1> SUFFICES ASSUME IInv, Prefetch PROVE IInv'
  OBVIOUS
<1>0. TypeOK /\ FileInv /\ WholeInv /\ SteadyInv /\ PlaceInv /\ CacheIsTheFile
  BY DEF IInv
<1> DEFINE p == asked + k
<1>1. /\ pc = "prefetch" /\ pc' = "prefetch" /\ ~Cached(p)
      /\ UNCHANGED <<server, tells, open, fallback_full, prefetch_pages, have_meta>>
      /\ UNCHANGED <<caller, asked, header, last>>
  BY DEF Prefetch, serverVars, fileVars
<1>2. /\ k \in Nat /\ k >= 1 /\ k' = k + 1 /\ k' \in 1..(prefetch_pages + 1)
      /\ prefetch_pages < Capacity => k < Capacity
  BY <1>0, PrefetchIsShort DEF Prefetch
<1>3. /\ cache \in Seq(Entry) /\ Len(cache) <= Capacity /\ asked \in Nat /\ asked >= 1
      /\ open /\ Sized
  BY <1>0, <1>1, ConstantsAssumption DEF TypeOK, Entry, FileInv, Page
<1>4. p \in Nat /\ p >= 1
  BY <1>2, <1>3
<1>5. DOMAIN cache = 1..Len(cache) /\ Len(cache) \in Nat /\ p # asked
  BY <1>2, <1>3
<1>6. server # "mixed" => Genuine(cache, asked)
  BY <1>0, <1>1 DEF SteadyInv
<1>7. server = "whole" => data
  BY <1>0, <1>1 DEF WholeInv
<1> HIDE DEF p
<1>8. CASE \E body \in Page : FetchRange(p, TRUE, body) /\ cache' = Insert(p, body)
  <2>1. PICK body \in Page : FetchRange(p, TRUE, body) /\ cache' = Insert(p, body)
    BY <1>8
  <2> DEFINE n == IF Len(cache) = Capacity THEN Capacity ELSE Len(cache) + 1
  <2>2. /\ cache' \in Seq(Entry) /\ Len(cache') = n /\ n <= Capacity
        /\ \A l \in 2..n : l - 1 \in 1..Len(cache) /\ cache'[l] = cache[l - 1]
    BY <1>3, <1>4, <2>1, Inserted
  <2>3. n \in Nat /\ n >= 1
    BY <1>3, ConstantsAssumption
  <2>4. \/ /\ server # "whole" /\ p <= Pages /\ body = p
           /\ content_length' \in {-1, Pages} /\ (tells => content_length' = Pages)
           /\ data' = data /\ downloads' = downloads /\ faults' = faults
        \/ /\ server # "ranges" /\ fallback_full /\ ~data /\ body = 1
           /\ content_length' = content_length /\ data' = TRUE
           /\ downloads' = downloads + 1 /\ faults' = faults
    BY <1>0, <2>1, RequestSucceeds
  <2>5. TypeOK'
    <3>1. data' \in BOOLEAN
      BY <1>0, <2>4 DEF TypeOK
    <3>2. content_length' \in {-1, Pages} /\ downloads' \in Nat /\ faults' \in 0..MaxFaults
      BY <1>0, <2>4 DEF TypeOK
    <3> QED BY <1>0, <1>1, <1>2, <2>2, <3>1, <3>2 DEF TypeOK, Entry
  <2>6. FileInv'
    BY <1>0, <1>1, <1>3, <2>4 DEF FileInv, Sized
  <2>7. WholeInv' /\ SteadyInv'
    <3>1. server = "whole" => data'
      BY <1>7, <2>4
    <3>2. WholeInv'
      BY <1>0, <1>1, <3>1 DEF WholeInv
    <3>3. server # "mixed" => Genuine(cache', asked)
      BY <1>3, <1>4, <1>5, <1>6, <2>1, InsertKeepsGenuine
    <3>4. SteadyInv'
      BY <1>0, <1>1, <3>3 DEF SteadyInv
    <3> QED BY <3>2, <3>4
  <2>8. PlaceInv'
    <3> SUFFICES ASSUME prefetch_pages < Capacity PROVE PlaceInv'
      BY <1>1 DEF PlaceInv
    <3>1. PICK j \in 1..Len(cache) : j <= k /\ cache[j].page = asked
      BY <1>0, <1>1, <1>5 DEF PlaceInv
    <3>2. j + 1 \in 2..n
      <4>1. k < Capacity /\ k \in Nat /\ Capacity \in Nat /\ Len(cache) \in Nat
        BY <1>2, <1>5, ConstantsAssumption
      <4> QED BY <3>1, <4>1
    <3>3. (j + 1) - 1 = j /\ j + 1 <= k' /\ j + 1 \in DOMAIN cache'
      BY <1>2, <1>5, <2>2, <2>3, <3>1, <3>2
    <3>4. cache'[j + 1].page = asked
      BY <2>2, <3>1, <3>2, <3>3
    <3> QED BY <1>1, <3>3, <3>4 DEF PlaceInv
  <2>9. CacheIsTheFile'
    <3> SUFFICES ASSUME ~data' PROVE Clean(cache')
      BY DEF CacheIsTheFile, Clean
    <3>1. ~data /\ body = p /\ p <= Pages
      BY <2>4
    <3>2. Clean(cache) /\ p \in Page
      BY <1>0, <1>4, <3>1, ConstantsAssumption DEF CacheIsTheFile, Clean, Page
    <3> QED BY <1>1, <1>3, <2>1, <3>1, <3>2, InsertKeepsClean DEF p
  <2> QED BY <2>5, <2>6, <2>7, <2>8, <2>9 DEF IInv
<1>9. CASE FetchRange(p, FALSE, 1) /\ cache' = cache
  <2>1. /\ content_length' = content_length /\ data' = data /\ downloads' = downloads
        /\ faults' \in 0..MaxFaults
    BY <1>0, <1>9, RequestFails
  <2>2. TypeOK'
    BY <1>0, <1>1, <1>2, <1>9, <2>1 DEF TypeOK
  <2>3. FileInv' /\ WholeInv' /\ SteadyInv' /\ CacheIsTheFile'
    BY <1>0, <1>1, <1>9, <2>1 DEF FileInv, WholeInv, SteadyInv, CacheIsTheFile, Sized, Genuine
  <2>4. ASSUME NEW j \in DOMAIN cache, j <= k PROVE j <= k'
    BY <1>2, <1>5, <2>4
  <2>5. PlaceInv'
    BY <1>0, <1>1, <1>9, <2>4 DEF PlaceInv
  <2> QED BY <2>2, <2>3, <2>5 DEF IInv
<1> QED BY <1>8, <1>9 DEF Prefetch, p

LEMMA ReadEndKeeps == IInv /\ ReadEnd => IInv'
<1> SUFFICES ASSUME IInv, ReadEnd PROVE IInv'
  OBVIOUS
<1>0. TypeOK /\ FileInv /\ WholeInv /\ SteadyInv /\ PlaceInv /\ CacheIsTheFile
  BY DEF IInv
<1> DEFINE copied == IF Cached(asked) THEN {cache[Position(asked)].body}
                                       ELSE Page \cup {Freed}
<1>1. PICK body \in copied : Return("ok", body)
  BY DEF ReadEnd
<1>2. /\ pc = "prefetch" /\ pc' = "idle"
      /\ last' = [page |-> asked, body |-> body, rc |-> "ok"] /\ header' = TRUE
      /\ UNCHANGED <<server, tells, open, fallback_full, prefetch_pages, have_meta, content_length>>
      /\ UNCHANGED <<data, cache, caller, asked, k, downloads, faults>>
  BY <1>1 DEF ReadEnd, Return, serverVars, fileVars, metaVars
<1>3. cache \in Seq(Entry)
  BY <1>0 DEF TypeOK, Entry
<1>4. CASE Cached(asked)
  <2> DEFINE q == Position(asked)
  <2>1. q \in DOMAIN cache /\ cache[q].page = asked
    BY <1>4 DEF Cached, Position
  <2>2. q \in 1..Len(cache) /\ body = cache[q].body
    BY <1>3, <1>4, <2>1
  <2> HIDE DEF q
  <2>3. body \in Page
    <3>1. cache[q] \in Entry
      BY <1>3, <2>2
    <3> QED BY <2>2, <3>1 DEF Entry
  <2>4. server # "mixed" => body = asked
    BY <1>0, <1>2, <2>1, <2>2 DEF SteadyInv, Genuine
  <2>5. TypeOK'
    BY <1>0, <1>2, <2>3 DEF TypeOK
  <2>6. FileInv' /\ WholeInv' /\ SteadyInv' /\ PlaceInv' /\ CacheIsTheFile'
    BY <1>0, <1>2, <2>4 DEF FileInv, WholeInv, SteadyInv, PlaceInv, CacheIsTheFile, Sized, Genuine
  <2> QED BY <2>5, <2>6 DEF IInv
<1>5. CASE ~Cached(asked)
  <2>1. body \in Page \cup {Freed}
    BY <1>1, <1>5
  <2>2. ~(prefetch_pages < Capacity)
    BY <1>0, <1>2, <1>5 DEF PlaceInv, Cached
  <2>3. TypeOK'
    BY <1>0, <1>2, <2>1 DEF TypeOK
  <2>4. FileInv' /\ WholeInv' /\ SteadyInv' /\ PlaceInv' /\ CacheIsTheFile'
    BY <1>0, <1>2, <2>2 DEF FileInv, WholeInv, SteadyInv, PlaceInv, CacheIsTheFile, Sized, Genuine
  <2> QED BY <2>3, <2>4 DEF IInv
<1> QED BY <1>4, <1>5

----------------------------------------------------------------------------
LEMMA InvStep == IInv /\ [Next]_vars => IInv'
<1> SUFFICES ASSUME IInv, [Next]_vars PROVE IInv'
  OBVIOUS
<1>1. CASE Open \/ Close
  BY <1>1, OpenKeeps
<1>2. ASSUME NEW p \in Page, Read(p) PROVE IInv'
  BY <1>2, ReadKeeps
<1>3. CASE SizeProbe \/ ProbeHead \/ ProbeRange \/ ProbeFails
  BY <1>3, ProbeKeeps
<1>4. CASE Hit \/ Miss \/ MissFails
  BY <1>4, HitKeeps, MissKeeps, MissFailsKeeps
<1>5. CASE PrefetchHit \/ Prefetch \/ ReadEnd
  BY <1>5, PrefetchHitKeeps, PrefetchKeeps, ReadEndKeeps
<1>6. CASE UNCHANGED vars
  <2>1. /\ UNCHANGED <<server, tells, open, fallback_full, prefetch_pages, have_meta, content_length>>
        /\ UNCHANGED <<data, cache, pc, caller, asked, k, header, last, downloads, faults>>
    BY <1>6 DEF vars, serverVars, fileVars, metaVars, callVars
  <2> QED BY <2>1 DEF IInv, TypeOK, FileInv, WholeInv, SteadyInv, PlaceInv, CacheIsTheFile, Sized, Genuine
<1> QED BY <1>1, <1>2, <1>3, <1>4, <1>5, <1>6 DEF Next, Internal

LEMMA Inductive == Spec => []IInv
  BY InvInit, InvStep, PTL DEF Spec

\* Every variable of an open file has its type, and the cache its capacity.
THEOREM TypeCorrect == Spec => []TypeOK
  BY Inductive, PTL DEF IInv

\* The page http_get_page() points to survives a prefetch shorter than the cache,
\* whatever the capacity and whatever was cached before.
THEOREM PageOutIsInCache == Spec => []ShortPrefetchIsSafe
<1>1. IInv => ShortPrefetchIsSafe
  BY DEF IInv, PlaceInv, ShortPrefetchIsSafe, PageOutStays, Cached
<1> QED BY Inductive, <1>1, PTL

\* The cache in use holds each page once and as what it is, from any server.
THEOREM CacheHoldsTheFile == Spec => []CacheIsTheFile
  BY Inductive, PTL DEF IInv

\* A server that treats all ranges alike is read page by page as it is, unless a
\* prefetch as long as the cache frees the page before it is copied.
THEOREM SteadyServerGivesThePage == Spec => []SteadyServerIsRead
<1>1. IInv => SteadyServerIsRead
  BY DEF IInv, SteadyInv, SteadyServerIsRead, ReadsTheFile
<1> QED BY Inductive, <1>1, PTL

\* The whole file is downloaded once at most, and only if that is configured.
THEOREM DownloadsOnce == Spec => []FallbackAsConfigured
<1>1. IInv => FallbackAsConfigured
  <2> SUFFICES ASSUME IInv PROVE FallbackAsConfigured
    OBVIOUS
  <2>1. FileInv /\ WholeInv
    BY DEF IInv
  <2>2. downloads <= IF fallback_full THEN 1 ELSE 0
    BY <2>1 DEF FileInv
  <2>3. server = "whole" /\ ~fallback_full => last.rc # "ok"
    BY <2>1 DEF FileInv, WholeInv
  <2> QED BY <2>2, <2>3 DEF FallbackAsConfigured
<1> QED BY Inductive, <1>1, PTL

\* After a read that succeeded the size of the file is known, unless the file was
\* not downloaded and no answer needs to state it.
THEOREM SizeAfterRead == Spec => []SizeIsKnown
<1>1. IInv => SizeIsKnown
  BY ConstantsAssumption DEF IInv, TypeOK, FileInv, Sized, SizeIsKnown, FileSize
<1> QED BY Inductive, <1>1, PTL
=============================================================================
