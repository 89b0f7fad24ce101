------------------------------ MODULE HttpVfs ------------------------------
(***************************************************************************)
(* A remote database file read over HTTP: the VFS "http" of                *)
(* src/src/vendor/extensions/http.c, used by sqliteRemote().               *)
(*                                                                         *)
(* The file is read page by page with range requests, through a cache that *)
(* keeps the pages used last, with an optional prefetch.  A server that    *)
(* answers a range with the whole file (200 instead of 206) makes the VFS  *)
(* download the file once and serve every later read from memory.          *)
(*                                                                         *)
(* The contents of a buffer are abstracted to the page its first bytes     *)
(* belong to: a page that was asked for and delivered, or page 1 for the   *)
(* body of a whole file.  Every request is a step of its own, as the       *)
(* server may answer each one differently.  No request has a time limit:   *)
(* nothing here says that a call ends.                                     *)
(***************************************************************************)
EXTENDS Integers, Sequences, SequencesExt

CONSTANTS
  Pages,            \* pages of the remote file
  Capacity,         \* cache_capacity, at least 2 in the code
  PrefetchChoices,  \* values of RSQLITE_HTTP_PREFETCH_PAGES
  MaxFaults         \* bound: requests that fail

ASSUME ConstantsAssumption ==
  /\ Pages \in Nat \ {0}
  /\ Capacity \in Nat \ {0, 1}
  /\ PrefetchChoices \subseteq Nat
  /\ MaxFaults \in Nat

Page == 1..Pages
Servers == {"ranges", "whole", "mixed"}

Freed == 0          \* stands for memory that holds no page of the file

VARIABLES
  server,           \* answers ranges with 206, with 200, or with either
  tells,            \* every 206 states the length of the file, none need to
  open,             \* between httpOpen() and httpClose()
  fallback_full,    \* HttpFile.fallback_full
  prefetch_pages,   \* HttpFile.prefetch_pages
  have_meta,        \* HttpFile.have_meta
  content_length,   \* HttpFile.content_length in pages, -1 if unknown
  data,             \* HttpFile.data is set: the whole file is in memory
  cache,            \* cache_page_no and cache_data, front first
  pc,               \* "idle", or the request the running call makes next
  caller,           \* the call: "read" or "size"
  asked,            \* the page that httpRead() wants
  k,                \* the loop counter of the prefetch
  header,           \* SQLite has read the file's header
  last,             \* result of the last httpRead()
  downloads,        \* history: full downloads since httpOpen()
  faults            \* used so far of MaxFaults

fileVars == <<open, fallback_full, prefetch_pages>>
metaVars == <<have_meta, content_length>>
callVars == <<pc, caller, asked, k>>
serverVars == <<server, tells>>
vars == <<serverVars, fileVars, metaVars, data, cache, callVars, header, last,
          downloads, faults>>

None == [page |-> 1, body |-> 1, rc |-> "none"]

Init ==
  /\ server \in Servers /\ tells \in BOOLEAN /\ faults = 0
  /\ open = FALSE /\ fallback_full = FALSE /\ prefetch_pages = 0
  /\ have_meta = FALSE /\ content_length = -1 /\ data = FALSE /\ cache = <<>>
  /\ pc = "idle" /\ caller = "read" /\ asked = 1 /\ k = 1
  /\ header = FALSE /\ last = None /\ downloads = 0

\* httpOpen(): no request is made yet.
Open ==
  /\ ~open
  /\ open' = TRUE
  /\ fallback_full' \in BOOLEAN
  /\ prefetch_pages' \in PrefetchChoices
  /\ UNCHANGED <<serverVars, metaVars, data, cache, callVars, header, last, downloads, faults>>

\* httpClose()
Close ==
  /\ open /\ pc = "idle"
  /\ open' = FALSE /\ fallback_full' = FALSE /\ prefetch_pages' = 0
  /\ have_meta' = FALSE /\ content_length' = -1 /\ data' = FALSE /\ cache' = <<>>
  /\ caller' = "read" /\ asked' = 1 /\ k' = 1
  /\ header' = FALSE /\ last' = None /\ downloads' = 0
  /\ UNCHANGED <<serverVars, pc, faults>>

----------------------------------------------------------------------------
(* Requests *)

Fail == faults < MaxFaults /\ faults' = faults + 1

\* What a 206 leaves of the length: its Content-Range fills in one that is not
\* known yet, if it states the total and not "*".
KnownByHeadOnly == {content_length}
Known ==
  IF content_length > 0 THEN {content_length}
  ELSE IF tells THEN {Pages} ELSE {content_length, Pages}

MayDownloadAgain == fallback_full
MayDownload == fallback_full /\ ~data

\* http_fetch_range() of page p, with httpDownload(): ok is the outcome, body
\* what the buffer holds.  A 206 is taken to hold all of the page: the code does
\* not compare the length of its body with the range it asked for.
FetchRangeTrusting(p, ok, body) ==
  /\ ok
  /\ \/ server # "whole" /\ p <= Pages /\ body = p
     \/ server # "ranges" /\ body = 1
  /\ content_length' \in Known
  /\ UNCHANGED <<data, downloads, faults>>
FetchRange(p, ok, body) ==
  \/ /\ server # "whole" /\ p <= Pages           \* 206
     /\ ok /\ body = p
     /\ content_length' \in Known
     /\ UNCHANGED <<data, downloads, faults>>
  \/ /\ server # "ranges" /\ MayDownload         \* 200, and the download works
     /\ ok /\ body = 1
     /\ data' = TRUE
     /\ downloads' = downloads + 1
     /\ UNCHANGED <<content_length, faults>>
  \/ /\ server # "ranges" /\ ~MayDownload        \* 200, and there is no way out
     /\ ~ok /\ body = 1
     /\ UNCHANGED <<content_length, data, downloads, faults>>
  \/ /\ server # "whole" /\ p > Pages           \* 416
     /\ ~ok /\ body = 1
     /\ UNCHANGED <<content_length, data, downloads, faults>>
  \/ /\ Fail                                     \* this request or the download
     /\ ~ok /\ body = 1
     /\ UNCHANGED <<content_length, data, downloads>>

CachedInFront(p) == cache # <<>> /\ cache[1].page = p
Cached(p) == \E j \in DOMAIN cache : cache[j].page = p
Position(p) == CHOOSE j \in DOMAIN cache : cache[j].page = p

\* Inserting at the front evicts from the end when the cache is full.
InsertAlways(p, body) == <<[page |-> p, body |-> body]>> \o cache
InsertEvictingFirst(p, body) ==
  <<[page |-> p, body |-> body]>>
    \o (IF Len(cache) = Capacity THEN Tail(cache) ELSE cache)
Insert(p, body) ==
  <<[page |-> p, body |-> body]>>
    \o (IF Len(cache) = Capacity THEN Front(cache) ELSE cache)

\* The end of httpRead() on the way through the cache.
Return(rc, body) ==
  /\ pc' = "idle"
  /\ last' = [page |-> asked, body |-> body, rc |-> rc]
  /\ header' = (header \/ rc = "ok")

----------------------------------------------------------------------------
(* Calls *)

\* httpRead() of one page.  SQLite reads the header, on page 1, before all else.
Read(p) ==
  /\ open /\ pc = "idle"
  /\ header \/ p = 1
  /\ asked' = p
  /\ caller' = "read"
  /\ IF data
     THEN /\ last' = [page |-> p, body |-> p, rc |-> "ok"]
          /\ UNCHANGED <<pc, header>>
     ELSE /\ pc' = IF have_meta THEN "page" ELSE "head"
          /\ UNCHANGED <<last, header>>
  /\ UNCHANGED <<serverVars, fileVars, metaVars, data, cache, k, downloads, faults>>

\* httpFileSize() when it has to probe first.
SizeProbe ==
  /\ open /\ pc = "idle" /\ ~data /\ ~have_meta
  /\ caller' = "size"
  /\ pc' = "head"
  /\ UNCHANGED <<serverVars, fileVars, metaVars, data, cache, asked, k, header,
                 last, downloads, faults>>

\* What httpFileSize() tells, in pages.
FileSize ==
  IF data THEN Pages
  ELSE IF have_meta /\ content_length > 0 THEN content_length ELSE 0

\* http_probe_meta(), first request: HEAD, which may fail or know no length.  The
\* length is taken to be the file's: the code also reads the headers of a redirect
\* on the way, and keeps the length one may state when the answer has none.
ProbeHead ==
  /\ pc = "head"
  /\ content_length' \in {-1, Pages}
  /\ pc' = "probe"
  /\ UNCHANGED <<serverVars, fileVars, have_meta, data, cache, caller, asked, k,
                 header, last, downloads, faults>>

\* Second request: the first bytes, for the page size.  Any answer will do.
ProbeRange ==
  /\ pc = "probe"
  /\ have_meta' = TRUE
  /\ cache' = <<>>
  /\ pc' = IF caller = "size" THEN "idle" ELSE "page"
  /\ UNCHANGED <<serverVars, fileVars, content_length, data, caller, asked, k,
                 header, last, downloads, faults>>

ProbeFails ==
  /\ pc = "probe"
  /\ Fail
  /\ IF caller = "size" THEN pc' = "idle" /\ UNCHANGED <<last, header>>
                        ELSE Return("error", 1)
  /\ UNCHANGED <<serverVars, fileVars, metaVars, data, cache, caller, asked, k,
                 downloads>>

\* http_get_page(): a hit moves to the front.
Hit ==
  /\ pc = "page" /\ Cached(asked)
  /\ LET entry == cache[Position(asked)]
     IN  /\ cache' = <<entry>> \o RemoveAt(cache, Position(asked))
         /\ Return("ok", entry.body)
  /\ UNCHANGED <<serverVars, fileVars, metaVars, data, caller, asked, k, downloads,
                 faults>>

\* A miss: one request, and the page goes to the front.
Miss ==
  /\ pc = "page" /\ ~Cached(asked)
  /\ \E body \in Page :
       /\ FetchRange(asked, TRUE, body)
       /\ cache' = Insert(asked, body)
  /\ pc' = "prefetch" /\ k' = 1
  /\ UNCHANGED <<serverVars, fileVars, have_meta, caller, asked, header, last>>

MissFails ==
  /\ pc = "page" /\ ~Cached(asked)
  /\ FetchRange(asked, FALSE, 1)
  /\ Return("error", 1)
  /\ UNCHANGED <<serverVars, fileVars, have_meta, cache, caller, asked, k>>

\* The loop of the prefetch, which ends at the end of the file if that is known.
Prefetches ==
  /\ k <= prefetch_pages
  /\ content_length > 0 => asked + k <= content_length

NextPage == k' = k + 1

PrefetchHit ==
  /\ pc = "prefetch" /\ Prefetches /\ Cached(asked + k)
  /\ NextPage
  /\ UNCHANGED <<serverVars, fileVars, metaVars, data, cache, pc, caller, asked,
                 header, last, downloads, faults>>

Prefetch ==
  /\ pc = "prefetch" /\ Prefetches /\ ~Cached(asked + k)
  /\ \/ \E body \in Page : /\ FetchRange(asked + k, TRUE, body)
                           /\ cache' = Insert(asked + k, body)
     \/ FetchRange(asked + k, FALSE, 1) /\ UNCHANGED cache
  /\ NextPage
  /\ UNCHANGED <<serverVars, fileVars, have_meta, pc, caller, asked, header, last>>

\* httpRead() copies from where http_get_page() pointed.  If the prefetch has
\* evicted that page its memory is free, and may hold anything by now.
ReadEnd ==
  /\ pc = "prefetch" /\ ~Prefetches
  /\ \E body \in IF Cached(asked) THEN {cache[Position(asked)].body}
                                  ELSE Page \cup {Freed} :
       Return("ok", body)
  /\ UNCHANGED <<serverVars, fileVars, metaVars, data, cache, caller, asked, k,
                 downloads, faults>>

Internal ==
  ProbeHead \/ ProbeRange \/ ProbeFails \/ Hit \/ Miss \/ MissFails
    \/ PrefetchHit \/ Prefetch \/ ReadEnd

Next ==
  \/ Open \/ Close
  \/ \E p \in Page : Read(p)
  \/ SizeProbe
  \/ Internal

Spec == Init /\ [][Next]_vars

----------------------------------------------------------------------------
(* Properties *)

\* Every variable has its type, and the cache keeps to its capacity.
TypeOK ==
  /\ server \in Servers /\ tells \in BOOLEAN
  /\ open \in BOOLEAN /\ fallback_full \in BOOLEAN
  /\ prefetch_pages \in PrefetchChoices \cup {0}
  /\ have_meta \in BOOLEAN /\ content_length \in {-1, Pages} /\ data \in BOOLEAN
  /\ cache \in Seq([page : Nat, body : Page]) /\ Len(cache) <= Capacity
  /\ pc \in {"idle", "head", "probe", "page", "prefetch"}
  /\ caller \in {"read", "size"}
  /\ asked \in Page /\ k \in 1..(prefetch_pages + 1) /\ header \in BOOLEAN
  /\ last \in [page : Page, body : Page \cup {Freed}, rc : {"none", "ok", "error"}]
  /\ downloads \in Nat /\ faults \in 0..MaxFaults

\* As long as reads go through the cache, it holds each page once, and what it
\* holds as a page is that page, whatever the server does from request to
\* request: the body of a refused range gets in only as the cache goes out of use.
CacheIsTheFile ==
  ~data =>
    \A j \in DOMAIN cache :
      /\ cache[j].body = cache[j].page
      /\ \A l \in DOMAIN cache : cache[l].page = cache[j].page => l = j

\* http_get_page() "returns pointer to cached page (owned by hf)" (http.c:322):
\* the page must still be in the cache when httpRead() copies it.  The code does
\* not keep to this: a prefetch as long as the cache evicts the page.
PageOutStays == pc = "prefetch" => Cached(asked)

\* It is safe up to the last page that fits: a prefetch of all the cache but one
\* never evicts the page asked for, whatever was in the cache before.
ShortPrefetchIsSafe == prefetch_pages < Capacity => PageOutStays

\* A read that succeeds delivers the page that was asked for.
ReadsTheFile == pc = "idle" /\ last.rc = "ok" => last.body = last.page

\* It does with any server that treats all ranges alike, if the prefetch is
\* shorter than the cache: a server that never honours ranges is found out by
\* the first read, whose page is at the start of the body.
SteadyServerIsRead == server # "mixed" /\ prefetch_pages < Capacity => ReadsTheFile

\* The fallback is "a one-time full download", and "If Range not supported and
\* fallback disabled, open will fail": its first read, and every other, is an error.
FallbackAsConfigured ==
  /\ downloads <= IF fallback_full THEN 1 ELSE 0
  /\ server = "whole" /\ ~fallback_full => last.rc # "ok"

\* Once a read has succeeded the size of the file is known, from HEAD, from the
\* range answers, or from the download, however the requests before it failed.
\* Only a server whose range answers need not state the total can leave it open:
\* then httpFileSize() says 0, and SQLite takes the file for an empty database.
SizeIsKnown ==
  pc = "idle" /\ last.rc = "ok" =>
    \/ FileSize = Pages
    \/ FileSize = 0 /\ ~tells /\ ~data
=============================================================================
