-------------------------- MODULE NetworkImageNode --------------------------
(***************************************************************************)
(* ASNetworkImageNode.mm: the image of a URL is looked up in a cache and   *)
(* then downloaded, while clients change the URL from any thread and the   *)
(* range controller moves the node in and out of the preload range.        *)
(*                                                                         *)
(* What is done while the instance lock is held once is one step.  The     *)
(* handlers that give it up in between are frames with a program counter:  *)
(* the one of the main thread, and the background blocks dispatched by     *)
(* -_downloadImageWithCompletion:.                                         *)
(*                                                                         *)
(* Two choices of the client are made once, in Init: whether there is a    *)
(* cache, and whether the downloader tells its completions the identifier  *)
(* of the download and has progress images (PINRemoteImage does, and       *)
(* ASBasicImageDownloader completes with nil).  The node has no default    *)
(* image, and a finished download has the image of its URL.                *)
(***************************************************************************)
EXTENDS Integers, Sequences

CONSTANTS
  URLs,          \* URLs clients use
  FileURLs,      \* those that are file URLs
  NoURL,         \* nil
  NoImage,       \* nil
  External,      \* an image set by the client
  Resets,        \* what clients pass as resetToDefault
  Setups,        \* pairs of reportsId and hasCache
  MaxEvents      \* bound: calls of clients, range controller and display

ASSUME ImageAssumption ==
  /\ FileURLs \subseteq URLs
  /\ NoURL \notin URLs
  /\ NoImage \notin URLs /\ External \notin URLs
  /\ Resets \subseteq BOOLEAN
  /\ Setups \subseteq BOOLEAN \X BOOLEAN
  /\ MaxEvents \in Nat

Nil == 0

VARIABLES
  reportsId,     \* completions carry the download's identifier (never changes)
  hasCache,      \* _cache # nil (never changes)
  url,           \* _URL
  image,         \* the image shown: External, or that of a URL
  imageLoaded,   \* _imageLoaded
  external,      \* _imageWasSetExternally
  downloadId,    \* _downloadIdentifier
  cacheUUID,     \* _cacheUUID
  preload,       \* the Preload bit of _interfaceState
  main,          \* the main thread inside a handler
  blocks,        \* the background blocks
  lookups,       \* lookups begun; the index is the UUID
  downloads,     \* downloads begun; the index is the identifier
  fileLoads,     \* blocks that load a file, on the main queue
  preloads,      \* blocks of -recursivelyPreload on the main queue
  events         \* events so far

configVars == <<reportsId, hasCache>>
imageVars == <<image, imageLoaded, external>>
idVars == <<downloadId, cacheUUID>>
queueVars == <<fileLoads, preloads>>
vars == <<configVars, url, imageVars, idVars, preload, main, blocks, lookups,
          downloads, queueVars, events>>

Blocks == 1 .. MaxEvents  \* each event leads to one block at most
MaybeURL == URLs \cup {NoURL}

Free == [pc |-> "idle", url |-> NoURL]              \* the main thread
Idle == [pc |-> "idle", url |-> NoURL, id |-> Nil]  \* a background block

MainFrame == [pc : {"idle", "read", "load", "cached", "clear"}, url : MaybeURL]
BlockFrame == [pc : {"idle", "start", "store"}, url : MaybeURL, id : Nat]
Lookup == [url : MaybeURL, answered : BOOLEAN]

\* missed: the completion has run, with an error and without a cancel.
Download == [url : MaybeURL, state : {"running", "canceled", "missed", "done"}]

TypeOK ==
  /\ reportsId \in BOOLEAN /\ hasCache \in BOOLEAN
  /\ url \in MaybeURL
  /\ image \in URLs \cup {NoURL, NoImage, External}
  /\ imageLoaded \in BOOLEAN /\ external \in BOOLEAN
  /\ lookups \in Seq(Lookup) /\ downloads \in Seq(Download)
  /\ downloadId \in 0 .. Len(downloads)
  /\ cacheUUID \in 0 .. Len(lookups)
  /\ preload \in BOOLEAN
  /\ main \in MainFrame /\ blocks \in [Blocks -> BlockFrame]
  /\ fileLoads \in Seq(MaybeURL) /\ preloads \in Nat
  /\ events \in Nat

Init ==
  /\ \E s \in Setups : reportsId = s[1] /\ hasCache = s[2]
  /\ url \in MaybeURL       \* set before the node was in any range
  /\ image = NoImage /\ imageLoaded = FALSE /\ external = FALSE
  /\ downloadId = Nil /\ cacheUUID = Nil
  /\ preload = FALSE
  /\ main = Free /\ blocks = [b \in Blocks |-> Idle]
  /\ lookups = << >> /\ downloads = << >>
  /\ fileLoads = << >> /\ preloads = 0
  /\ events = 0

-----------------------------------------------------------------------------
MainFree == main.pc = "idle"

Canceled(d) ==
  IF downloads[d].state # "running" THEN downloads
  ELSE [downloads EXCEPT ![d].state = "canceled"]

cancelImageDownload ==
  IF downloadId = Nil
  THEN UNCHANGED <<downloads, downloadId, cacheUUID>>
  ELSE /\ downloads' = Canceled(downloadId)
       /\ downloadId' = Nil
       /\ cacheUUID' = Nil

\* -_downloadImageWithCompletion:, up to the dispatch of its block.
downloadImage ==
  \E b \in Blocks :
    /\ blocks[b].pc = "idle" /\ \A c \in 1 .. b - 1 : blocks[c].pc # "idle"
    /\ blocks' = [blocks EXCEPT ![b] = [Idle EXCEPT !.pc = "start"]]

-----------------------------------------------------------------------------
(* -_lazilyLoadImageIfNecessary, on the main thread.                       *)

\* First section: is there anything to load?
ReadState ==
  /\ main.pc = "read"
  /\ main' = IF ~imageLoaded /\ url # NoURL /\ downloadId = Nil
             THEN [pc |-> "load", url |-> url]
             ELSE Free
  /\ UNCHANGED <<configVars, url, imageVars, idVars, preload, blocks, lookups,
                 downloads, queueVars, events>>

\* A file is loaded by a block on the main queue,
LoadFileURL ==
  /\ main.pc = "load" /\ main.url \in FileURLs
  /\ fileLoads' = Append(fileLoads, main.url)
  /\ main' = Free
  /\ UNCHANGED <<configVars, url, imageVars, idVars, preload, blocks, lookups,
                 downloads, preloads, events>>

\* anything else looked up in the cache, under a new UUID,
BeginLookup ==
  /\ main.pc = "load" /\ main.url \notin FileURLs /\ hasCache
  /\ lookups' = Append(lookups, [url |-> main.url, answered |-> FALSE])
  /\ cacheUUID' = Len(lookups')
  /\ main' = Free
  /\ UNCHANGED <<configVars, url, imageVars, downloadId, preload, blocks,
                 downloads, queueVars, events>>

\* or downloaded.
BeginDownload ==
  /\ main.pc = "load" /\ main.url \notin FileURLs /\ ~hasCache
  /\ downloadImage
  /\ main' = Free
  /\ UNCHANGED <<configVars, url, imageVars, idVars, preload, lookups,
                 downloads, queueVars, events>>

\* Mutant: the block does not compare the URL.
LoadFileAnyway ==
  /\ MainFree /\ fileLoads # << >>
  /\ fileLoads' = Tail(fileLoads)
  /\ image' = Head(fileLoads) /\ imageLoaded' = TRUE
  /\ UNCHANGED <<configVars, url, external, idVars, preload, main, blocks,
                 lookups, downloads, preloads, events>>

\* The block bails out "if not the same URL anymore".
LoadFile ==
  /\ MainFree /\ fileLoads # << >>
  /\ fileLoads' = Tail(fileLoads)
  /\ IF Head(fileLoads) = url
     THEN image' = url /\ imageLoaded' = TRUE
     ELSE UNCHANGED <<image, imageLoaded>>
  /\ UNCHANGED <<configVars, url, external, idVars, preload, main, blocks,
                 lookups, downloads, preloads, events>>

\* A lookup is dropped if its UUID is no longer the current one.
AnswerLookup(l) ==
  /\ MainFree /\ ~lookups[l].answered
  /\ lookups' = [lookups EXCEPT ![l].answered = TRUE]

CacheDropped(l) ==
  /\ AnswerLookup(l) /\ cacheUUID # l
  /\ UNCHANGED <<configVars, url, imageVars, idVars, preload, main, blocks,
                 downloads, queueVars, events>>

CacheMiss(l) ==
  /\ AnswerLookup(l) /\ cacheUUID = l
  /\ downloadImage
  /\ UNCHANGED <<configVars, url, imageVars, idVars, preload, main, downloads,
                 queueVars, events>>

CacheHit(l) ==
  /\ AnswerLookup(l) /\ cacheUUID = l
  /\ main' = [pc |-> "cached", url |-> lookups[l].url]
  /\ UNCHANGED <<configVars, url, imageVars, idVars, preload, blocks, downloads,
                 queueVars, events>>

\* finished(image, nil, nil), under the lock again.
FinishCached ==
  /\ main.pc = "cached"
  /\ image' = main.url /\ imageLoaded' = TRUE
  /\ downloadId' = Nil /\ cacheUUID' = Nil
  /\ main' = Free
  /\ UNCHANGED <<configVars, url, external, preload, blocks, lookups, downloads,
                 queueVars, events>>

-----------------------------------------------------------------------------
(* Downloads.                                                              *)

\* The block reads the URL under the lock and asks the downloader without it.
StartDownload(b) ==
  /\ blocks[b].pc = "start"
  /\ downloads' = Append(downloads, [url |-> url, state |-> "running"])
  /\ blocks' = [blocks EXCEPT ![b] =
                  [pc |-> "store", url |-> url, id |-> Len(downloads')]]
  /\ UNCHANGED <<configVars, url, imageVars, idVars, preload, main, lookups,
                 queueVars, events>>

\* Mutant: the URL is not compared.
StoreIdentifierAlways(b) ==
  /\ blocks[b].pc = "store"
  /\ downloadId' = blocks[b].id
  /\ blocks' = [blocks EXCEPT ![b] = Idle]
  /\ UNCHANGED <<configVars, url, imageVars, cacheUUID, preload, main, lookups,
                 downloads, queueVars, events>>

\* If the URL has changed the download is canceled and the block begins again.
StoreIdentifier(b) ==
  /\ blocks[b].pc = "store"
  /\ IF blocks[b].url = url
     THEN /\ downloadId' = blocks[b].id
          /\ blocks' = [blocks EXCEPT ![b] = Idle]
          /\ UNCHANGED downloads
     ELSE /\ downloads' = Canceled(blocks[b].id)
          /\ blocks' = [blocks EXCEPT ![b] = [Idle EXCEPT !.pc = "start"]]
          /\ UNCHANGED downloadId
  /\ UNCHANGED <<configVars, url, imageVars, cacheUUID, preload, main, lookups,
                 queueVars, events>>

\* Mutant: the identifier is not compared.
IsForeignNever(d) == FALSE

\* An answer without identifier is always taken for one of the current download.
IsForeign(d) == reportsId /\ downloadId # d

\* finished(...) as called by the downloader on the main queue.  A canceled
\* download completes too if it had its answer before, and with the basic
\* downloader, whose task ends with an error.
FinishDownload(d, loaded) ==
  /\ MainFree /\ downloads[d].state \in {"running", "canceled"}
  /\ loaded => downloads[d].url # NoURL
  /\ downloads' = [downloads EXCEPT ![d].state =
                     IF @ = "running" /\ ~loaded THEN "missed" ELSE "done"]
  /\ IF IsForeign(d)
     THEN UNCHANGED <<image, imageLoaded, idVars>>
     ELSE /\ IF loaded
             THEN image' = downloads[d].url /\ imageLoaded' = TRUE
             ELSE UNCHANGED <<image, imageLoaded>>
          /\ downloadId' = Nil /\ cacheUUID' = Nil
  /\ UNCHANGED <<configVars, url, external, preload, main, blocks, lookups,
                 queueVars, events>>

\* -handleProgressImage:progress:downloadIdentifier: for a download whose
\* progress block is set.  Which ones those are is left open, and an image that
\* was on its way may come after a cancel or the end: only the identifier tells.
HandleProgress(d) ==
  /\ MainFree /\ reportsId
  /\ downloads[d].url # NoURL
  /\ ~IsForeign(d)
  /\ image' = downloads[d].url
  /\ UNCHANGED <<configVars, url, imageLoaded, external, idVars, preload, main,
                 blocks, lookups, downloads, queueVars, events>>

-----------------------------------------------------------------------------
(* Calls of clients, the range controller and the display.                 *)

Event == events < MaxEvents /\ events' = events + 1

\* -setURL:resetToDefault: up to the unlock.
setURL(u, reset) ==
  /\ ~external /\ u # url
  /\ cancelImageDownload
  /\ imageLoaded' = FALSE
  /\ url' = u
  /\ IF reset \/ u = NoURL THEN image' = NoImage ELSE UNCHANGED image

\* Mutant: without -setNeedsPreload.
SetURLOffMainSilently(u, reset) ==
  /\ Event
  /\ setURL(u, reset)
  /\ UNCHANGED <<configVars, external, preload, main, blocks, lookups, queueVars>>

\* On the main thread -setNeedsPreload loads at once, on another one it
\* dispatches a block.
SetURL(u, reset) ==
  /\ Event /\ MainFree
  /\ setURL(u, reset)
  /\ main' = IF preload THEN [Free EXCEPT !.pc = "read"] ELSE Free
  /\ UNCHANGED <<configVars, external, preload, blocks, lookups, queueVars>>

SetURLOffMain(u, reset) ==
  /\ Event
  /\ setURL(u, reset)
  /\ preloads' = IF preload THEN preloads + 1 ELSE preloads
  /\ UNCHANGED <<configVars, external, preload, main, blocks, lookups, fileLoads>>

RunPreload ==
  /\ MainFree /\ preloads > 0
  /\ preloads' = preloads - 1
  /\ main' = [Free EXCEPT !.pc = "read"]
  /\ UNCHANGED <<configVars, url, imageVars, idVars, preload, blocks, lookups,
                 downloads, fileLoads, events>>

\* -setImage: with an image, on a node without a URL (asserted),
SetImage ==
  /\ Event /\ url = NoURL
  /\ external' = TRUE
  /\ image' = External
  /\ IF external THEN UNCHANGED <<imageLoaded, downloads, idVars>>
     ELSE cancelImageDownload /\ imageLoaded' = FALSE
  /\ UNCHANGED <<configVars, url, preload, main, blocks, lookups, queueVars>>

\* and with nil.
RemoveImage ==
  /\ Event
  /\ external' = FALSE
  /\ image' = NoImage
  /\ UNCHANGED <<configVars, url, imageLoaded, idVars, preload, main, blocks,
                 lookups, downloads, queueVars>>

EnterPreloadState ==
  /\ Event /\ MainFree /\ ~preload
  /\ preload' = TRUE
  /\ main' = [Free EXCEPT !.pc = "read"]
  /\ UNCHANGED <<configVars, url, imageVars, idVars, blocks, lookups, downloads,
                 queueVars>>

\* -didExitPreloadState, which gives up the lock before it cancels and clears.
ExitPreloadState ==
  /\ Event /\ MainFree /\ preload
  /\ preload' = FALSE
  /\ main' = IF external THEN Free ELSE [Free EXCEPT !.pc = "clear"]
  /\ UNCHANGED <<configVars, url, imageVars, idVars, blocks, lookups, downloads,
                 queueVars>>

CancelDownloadAndClearImage ==
  /\ main.pc = "clear"
  /\ cancelImageDownload
  /\ image' = NoImage /\ imageLoaded' = FALSE
  /\ main' = Free
  /\ UNCHANGED <<configVars, url, external, preload, blocks, lookups, queueVars,
                 events>>

\* -displayWillStartAsynchronously:, which for a synchronous display may find
\* the image in the cache.
DisplayWillStart(hit) ==
  /\ Event /\ MainFree
  /\ hit => hasCache
  /\ IF hit /\ ~imageLoaded /\ url # NoURL /\ downloadId = Nil
     THEN image' = url /\ imageLoaded' = TRUE
     ELSE UNCHANGED <<image, imageLoaded>>
  /\ main' = [Free EXCEPT !.pc = "read"]
  /\ UNCHANGED <<configVars, url, external, idVars, preload, blocks, lookups,
                 downloads, queueVars>>

-----------------------------------------------------------------------------
Clients ==
  \/ \E u \in MaybeURL, reset \in Resets : SetURL(u, reset) \/ SetURLOffMain(u, reset)
  \/ SetImage \/ RemoveImage
  \/ EnterPreloadState \/ ExitPreloadState
  \/ \E hit \in BOOLEAN : DisplayWillStart(hit)

MainSteps ==
  \/ ReadState \/ LoadFileURL \/ BeginLookup \/ BeginDownload \/ FinishCached
  \/ CancelDownloadAndClearImage

MainQueue == LoadFile \/ RunPreload

BlockSteps(b) == StartDownload(b) \/ StoreIdentifier(b)

CacheAnswers ==
  \E l \in DOMAIN lookups : CacheDropped(l) \/ CacheMiss(l) \/ CacheHit(l)

DownloadsEnd ==
  \E d \in DOMAIN downloads, loaded \in BOOLEAN : FinishDownload(d, loaded)

Next ==
  \/ Clients \/ MainSteps \/ MainQueue \/ CacheAnswers \/ DownloadsEnd
  \/ \E d \in DOMAIN downloads : HandleProgress(d)
  \/ \E b \in Blocks : BlockSteps(b)

Spec == Init /\ [][Next]_vars

\* The threads run, downloads end, and the main queue is served although other
\* events come in between.
FairSpec ==
  /\ Spec
  /\ WF_vars(MainSteps)
  /\ \A b \in Blocks : WF_vars(BlockSteps(b))
  /\ SF_vars(MainQueue)
  /\ SF_vars(DownloadsEnd)

-----------------------------------------------------------------------------
(* Properties.                                                             *)

\* The download that would be canceled, and whose completion is accepted, is
\* one of the current URL, whatever calls of setURL: come while it is started
\* (lines 151-169 and 556-566).
DownloadMatchesURL ==
  downloadId # Nil => downloads[downloadId].url = url

\* With a downloader that reports identifiers the node never changes to the
\* image of another URL than its own, however late the answers come of the
\* downloads it canceled (lines 403-413 and 660-663).  Hits of a cache are the
\* exception, see CanceledLookupIsDropped.
NoForeignImage ==
  [][reportsId /\ main.pc # "cached" /\ image' # image /\ image' \in URLs
       => image' = url']_vars

\* _imageLoaded, which keeps the node from loading anything, is never left of
\* another URL: without a cache, and with a downloader that reports identifiers, the
\* image it stands for is the one of the URL now, or was removed by the client
\* (119-137, 161-169, 600-640 and 660-676).
LoadedIsCurrent ==
  reportsId /\ ~hasCache /\ imageLoaded => url \in URLs /\ image \in {url, NoImage}

\* Without a cache, a node in the preload range loads its URL unless a download
\* of it fails, provided that no completion overtakes the block that stores the
\* identifier (556-566): one with an identifier would be rejected then, and the
\* identifier of a download that is over keeps the node from loading (588-592).
Wants(u) == url = u /\ preload /\ ~imageLoaded
Overtaken ==
  \E b \in Blocks : blocks[b].pc = "store" /\ downloads[blocks[b].id].state \in {"missed", "done"}
LoadsWhenWanted ==
  []~Overtaken =>
    \A u \in URLs :
      (~hasCache /\ Wants(u))
        ~> \/ ~Wants(u)
           \/ \E d \in DOMAIN downloads : downloads[d] = [url |-> u, state |-> "missed"]

\* A hit of the cache is used only for the URL the node has: "If the cache UUID
\* changed, that means this request was cancelled" (line 701).
CanceledLookupIsDropped ==
  [][MainFree /\ main'.pc = "cached" => main'.url = url]_vars
=============================================================================
