----------------------------- MODULE FetchCache -----------------------------
(***************************************************************************)
(* The download cache of one URL (fetcher.go).  A copy is two files, the   *)
(* body and its metadata, each replaced atomically and never together.     *)
(* Every workspace has a directory of its own and all of them share one;   *)
(* the lock of a workspace keeps its fetches apart, nothing keeps those of *)
(* two workspaces apart in the shared directory.                           *)
(*                                                                         *)
(* A download is <<size, time, number>>: readers compare sizes, decide     *)
(* freshness by the time, and the number tells two downloads apart.        *)
(***************************************************************************)
EXTENDS Integers

CONSTANTS
  Workspace,     \* each with at most one fetch at a time
  Shared,        \* the directory all workspaces share
  NoFile,        \* stands for a file that does not exist
  MaxBody,       \* MaxBodyBytes
  TTL,           \* CacheTTL of a fetch that has one
  MaxTime,       \* bound: the clock
  MaxDownloads,  \* bound: answers of the upstream server
  MaxMishaps     \* bound: failed writes and crashes

VARIABLES
  now,
  body,       \* the download whose content is in the .body file
  meta,       \* the download that the .meta.json file describes
  stage,      \* where the fetch of each workspace is
  mode,       \* its Source: "offline" (PreferCache), "ttl" or "plain"
  seen,       \* the body a reader has read, before it reads the metadata
  got,        \* the download it answers with
  answer,     \* "none", "fresh", "offline", "fallback", "network" or "error"
  downloads,  \* history: every download
  saved,      \* history: the workspace holds a copy no failure has touched
  disturbed,  \* history: the shared copy changed while this fetch ran
  mishaps

cacheVars == <<body, meta>>
fetchVars == <<stage, mode, seen, got, answer>>
vars == <<now, cacheVars, fetchVars, downloads, saved, disturbed, mishaps>>

Dir == Workspace \cup {Shared}
Own(w) == w

Size(d) == d[1]
Time(d) == d[2]
Download == (1 .. MaxBody) \X (0 .. MaxTime) \X (1 .. MaxDownloads)
Mode == {"offline", "ttl", "plain"}
Stage == {"idle", "answered", "own body", "own meta", "shared body", "shared meta",
          "network", "retry", "write first", "write second", "share first", "share second"}
Kind == {"none", "fresh", "offline", "fallback", "network", "error"}

Init ==
  /\ now = 0
  /\ body = [d \in Dir |-> NoFile] /\ meta = [d \in Dir |-> NoFile]
  /\ stage = [w \in Workspace |-> "idle"] /\ mode = [w \in Workspace |-> "plain"]
  /\ seen = [w \in Workspace |-> NoFile] /\ got = [w \in Workspace |-> NoFile]
  /\ answer = [w \in Workspace |-> "none"]
  /\ downloads = {} /\ mishaps = 0
  /\ saved = [w \in Workspace |-> FALSE]
  /\ disturbed = [w \in Workspace |-> FALSE]

Goto(w, s) == stage' = [stage EXCEPT ![w] = s]

Answer(w, kind, d) ==
  /\ Goto(w, "answered")
  /\ answer' = [answer EXCEPT ![w] = kind]
  /\ got' = [got EXCEPT ![w] = d]
  /\ seen' = [seen EXCEPT ![w] = NoFile]
  /\ UNCHANGED mode

(* Fetch: an offline view reads the caches and stays off the network, a    *)
(* source with a TTL looks for a fresh copy first.                         *)
Fetch(w, m) ==
  /\ stage[w] = "idle"
  /\ Goto(w, IF m = "plain" THEN "network" ELSE "own body")
  /\ mode' = [mode EXCEPT ![w] = m]
  /\ UNCHANGED <<now, cacheVars, seen, got, answer, downloads, saved, disturbed,
                 mishaps>>

(* The caller has the answer, and the fetch is forgotten.                  *)
Return(w) ==
  /\ stage[w] = "answered"
  /\ Goto(w, "idle")
  /\ mode' = [mode EXCEPT ![w] = "plain"]
  /\ answer' = [answer EXCEPT ![w] = "none"]
  /\ got' = [got EXCEPT ![w] = NoFile]
  /\ disturbed' = [disturbed EXCEPT ![w] = FALSE]
  /\ UNCHANGED <<now, cacheVars, seen, downloads, saved, mishaps>>

(* A miss in the own directory, before or after the network was tried, and *)
(* in the shared one.                                                      *)
AfterOwnMiss(w) ==
  Goto(w, IF mode[w] = "ttl" /\ answer[w] = "none" THEN "network" ELSE "shared body")

(* Mutant: the shared directory is not tried.                              *)
MissWithoutFallback(w, d) ==
  IF mode[w] = "ttl" /\ answer[w] = "none"
    THEN Goto(w, "network") /\ UNCHANGED <<mode, seen, got, answer>>
    ELSE Answer(w, "error", NoFile)

Miss(w, d) ==
  IF d = Own(w) THEN /\ AfterOwnMiss(w)
                     /\ seen' = [seen EXCEPT ![w] = NoFile]
                     /\ UNCHANGED <<mode, got, answer>>
  ELSE Answer(w, "error", NoFile)

(* A copy that was found answers, unless the fetch has a TTL, has not been *)
(* to the network yet and the copy is not fresh.                           *)
Fresh(d) == now - Time(d) < TTL

Hit(w, d, described, content) ==
  IF mode[w] = "offline" THEN Answer(w, "offline", content)
  ELSE IF answer[w] = "error" THEN Answer(w, "fallback", content)
  ELSE IF Fresh(described) THEN Answer(w, "fresh", content)
  ELSE Miss(w, d)

(* readCacheFrom: the body first, then the metadata, which must describe a *)
(* body of that size within the limit.                                     *)
Matches(content, described) == Size(content) = Size(described)

ReadBody(w, d) ==
  /\ stage[w] = IF d = Own(w) THEN "own body" ELSE "shared body"
  /\ IF body[d] = NoFile
       THEN Miss(w, d)
       ELSE /\ seen' = [seen EXCEPT ![w] = body[d]]
            /\ Goto(w, IF d = Own(w) THEN "own meta" ELSE "shared meta")
            /\ UNCHANGED <<mode, got, answer>>
  /\ UNCHANGED <<now, cacheVars, downloads, saved, disturbed, mishaps>>

ReadMeta(w, d) ==
  /\ stage[w] = IF d = Own(w) THEN "own meta" ELSE "shared meta"
  /\ IF meta[d] # NoFile /\ Matches(seen[w], meta[d])
       THEN Hit(w, d, meta[d], seen[w])
       ELSE Miss(w, d)
  /\ UNCHANGED <<now, cacheVars, downloads, saved, disturbed, mishaps>>

(* fetchNetwork: any failure (a blocked host or port, DNS, the connection, *)
(* a redirect too many, a status, a blank or oversized body) falls back to *)
(* the caches.  While the answer is being looked for, "error" stands for   *)
(* the network error that will be returned when they miss.                 *)
NetworkFails(w) ==
  /\ stage[w] = "network"
  /\ Goto(w, "own body")
  /\ answer' = [answer EXCEPT ![w] = "error"]
  /\ UNCHANGED <<now, cacheVars, mode, seen, got, downloads, saved,
                 disturbed, mishaps>>

NetworkAnswers(w) ==
  /\ stage[w] = "network"
  /\ \E n \in 1 .. MaxDownloads, size \in 1 .. MaxBody :
       /\ \A d \in downloads : d[3] < n
       /\ \A k \in 1 .. (n - 1) : \E d \in downloads : d[3] = k
       /\ downloads' = downloads \cup {<<size, now, n>>}
       /\ got' = [got EXCEPT ![w] = <<size, now, n>>]
  /\ \/ Goto(w, "write first")
     \/ Goto(w, "retry")
  /\ UNCHANGED <<now, cacheVars, mode, seen, answer, saved,
                 disturbed, mishaps>>

(* A Clash client that was sent an empty document asks once more as the    *)
(* generic client; the first answer stands if that fails.                  *)
RetryAsGenericClient(w) ==
  /\ stage[w] = "retry"
  /\ \/ UNCHANGED <<got, downloads>>
     \/ \E n \in 1 .. MaxDownloads, size \in 1 .. MaxBody :
          /\ \A d \in downloads : d[3] < n
          /\ \A k \in 1 .. (n - 1) : \E d \in downloads : d[3] = k
          /\ downloads' = downloads \cup {<<size, now, n>>}
          /\ got' = [got EXCEPT ![w] = <<size, now, n>>]
  /\ Goto(w, "write first")
  /\ UNCHANGED <<now, cacheVars, mode, seen, answer, saved,
                 disturbed, mishaps>>

(* writeCacheDir: the body, then the metadata.  Only after the own         *)
(* directory has both is the shared one written, and its failures are      *)
(* ignored.  A write that fails leaves its file as it was.                 *)
(* Mutant: the metadata first.                                             *)
MetadataFirst == <<"meta", "body">>
WriteOrder == <<"body", "meta">>

Write(d, file, download) ==
  /\ body' = IF file = "body" THEN [body EXCEPT ![d] = download] ELSE body
  /\ meta' = IF file = "meta" THEN [meta EXCEPT ![d] = download] ELSE meta
  /\ disturbed' = [w \in Workspace |-> \/ disturbed[w]
                                       \/ d = Shared /\ stage[w] # "idle"]

WriteOwn(w) ==
  \/ /\ stage[w] = "write first"
     /\ Write(Own(w), WriteOrder[1], got[w])
     /\ Goto(w, "write second")
     /\ saved' = [saved EXCEPT ![w] = FALSE]
     /\ UNCHANGED <<now, mode, seen, got, answer, downloads, mishaps>>
  \/ /\ stage[w] = "write second"
     /\ Write(Own(w), WriteOrder[2], got[w])
     /\ Goto(w, "share first")
     /\ saved' = [saved EXCEPT ![w] = TRUE]
     /\ UNCHANGED <<now, mode, seen, got, answer, downloads, mishaps>>

WriteShared(w) ==
  \/ /\ stage[w] = "share first"
     /\ Write(Shared, WriteOrder[1], got[w])
     /\ Goto(w, "share second")
     /\ UNCHANGED <<now, mode, seen, got, answer, downloads, saved, mishaps>>
  \/ /\ stage[w] = "share second"
     /\ Write(Shared, WriteOrder[2], got[w])
     /\ Answer(w, "network", got[w])
     /\ UNCHANGED <<now, downloads, saved, mishaps>>

WriteFails(w) ==
  /\ mishaps < MaxMishaps
  /\ stage[w] \in {"write first", "write second", "share first", "share second"}
  /\ mishaps' = mishaps + 1
  /\ Answer(w, "network", got[w])
  /\ UNCHANGED <<now, cacheVars, downloads, saved, disturbed>>

(* The process dies: files stay as they are, fetches are gone.             *)
Crash ==
  /\ mishaps < MaxMishaps
  /\ mishaps' = mishaps + 1
  /\ stage' = [w \in Workspace |-> "idle"]
  /\ seen' = [w \in Workspace |-> NoFile] /\ got' = [w \in Workspace |-> NoFile]
  /\ answer' = [w \in Workspace |-> "none"]
  /\ mode' = [w \in Workspace |-> "plain"]
  /\ disturbed' = [w \in Workspace |-> FALSE]
  /\ UNCHANGED <<now, cacheVars, downloads, saved>>

Tick == now < MaxTime /\ now' = now + 1
        /\ UNCHANGED <<cacheVars, fetchVars, downloads, saved, disturbed, mishaps>>

Next ==
  \/ \E w \in Workspace :
       \/ \E m \in Mode : Fetch(w, m)
       \/ \E d \in {Own(w), Shared} : ReadBody(w, d) \/ ReadMeta(w, d)
       \/ WriteOwn(w) \/ WriteShared(w)
       \/ Return(w) \/ NetworkFails(w) \/ NetworkAnswers(w) \/ RetryAsGenericClient(w)
       \/ WriteFails(w)
  \/ Crash
  \/ Tick

Spec == Init /\ [][Next]_vars

-----------------------------------------------------------------------------
TypeOK ==
  /\ now \in 0 .. MaxTime /\ mishaps \in 0 .. MaxMishaps
  /\ body \in [Dir -> Download \cup {NoFile}]
  /\ meta \in [Dir -> Download \cup {NoFile}]
  /\ stage \in [Workspace -> Stage]
  /\ mode \in [Workspace -> Mode]
  /\ seen \in [Workspace -> Download \cup {NoFile}]
  /\ got \in [Workspace -> Download \cup {NoFile}]
  /\ answer \in [Workspace -> Kind]
  /\ downloads \subseteq Download
  /\ saved \in [Workspace -> BOOLEAN] /\ disturbed \in [Workspace -> BOOLEAN]

(* A remote rule list answered from the cache because it is fresh was      *)
(* downloaded less than CacheTTL before, even if a crash or a failed write *)
(* came between its body and its metadata: the body is never older than    *)
(* the metadata say, because it is written first.                          *)
FreshAnswersAreFresh ==
  [][\A w \in Workspace :
       stage[w] # "answered" /\ answer'[w] = "fresh" => now - Time(got'[w]) < TTL]_vars

(* A copy that is there is found.  Once a refresh has saved one in its     *)
(* workspace, the offline views of the editor find a copy: neither later   *)
(* failing refreshes, nor what other workspaces do to the shared directory,*)
(* takes it away (a write that fails between the two files does, which is  *)
(* why saved starts again).  And no fetch reports an error while the       *)
(* shared directory holds a whole copy that nobody touched meanwhile.      *)
WholeCopy(d) == body[d] # NoFile /\ body[d] = meta[d]

CopiesAreFound ==
  \A w \in Workspace : stage[w] = "answered" /\ answer[w] = "error" =>
    /\ ~(saved[w] /\ mode[w] = "offline")
    /\ ~disturbed[w] => ~WholeCopy(Shared)
=============================================================================
