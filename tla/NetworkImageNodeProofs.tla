----------------------- MODULE NetworkImageNodeProofs -----------------------
(***************************************************************************)
(* Safety of NetworkImageNode for any URLs, any setup and any number of    *)
(* events: the types, that the stored identifier is always of a download   *)
(* of the current URL, and that no late answer brings a foreign image.     *)
(*                                                                         *)
(* The argument: a background block keeps, between asking the downloader   *)
(* and taking the lock again, the URL it asked for next to the identifier  *)
(* it got; the URL of a download never changes; and every change of the    *)
(* node's URL drops the identifier under the same lock.                    *)
(***************************************************************************)
EXTENDS NetworkImageNode, TLAPS

-----------------------------------------------------------------------------
(* The inductive invariant, in the parts the provers handle apart.         *)

FlagsOK ==
  /\ reportsId \in BOOLEAN /\ hasCache \in BOOLEAN
  /\ imageLoaded \in BOOLEAN /\ external \in BOOLEAN
  /\ preload \in BOOLEAN

ShownOK ==
  /\ url \in MaybeURL
  /\ image \in URLs \cup {NoURL, NoImage, External}

LogsOK ==
  /\ lookups \in Seq(Lookup) /\ downloads \in Seq(Download)
  /\ downloadId \in 0 .. Len(downloads)
  /\ cacheUUID \in 0 .. Len(lookups)

FramesOK ==
  /\ main \in MainFrame
  /\ blocks \in [Blocks -> BlockFrame]

QueuesOK == fileLoads \in Seq(MaybeURL) /\ preloads \in Nat /\ events \in Nat

\* What a block between download and store holds is a download of its URL.
BlocksMatch ==
  \A b \in Blocks :
    blocks[b].pc = "store" =>
      /\ blocks[b].id \in DOMAIN downloads
      /\ downloads[blocks[b].id].url = blocks[b].url

\* What _imageLoaded stands for; a node without a cache never looks anything up,
\* and only URLs are loaded as files.
LoadedOK ==
  /\ ~hasCache => main.pc # "cached" /\ lookups = << >>
  /\ fileLoads \in Seq(URLs)
  /\ LoadedIsCurrent

IInv ==
  /\ FlagsOK /\ ShownOK /\ LogsOK /\ FramesOK /\ QueuesOK
  /\ BlocksMatch /\ DownloadMatchesURL /\ LoadedOK

LEMMA InitIInv == Init => IInv
<1> SUFFICES ASSUME Init PROVE IInv
  OBVIOUS
<1>1. FlagsOK
  <2>1. PICK s \in Setups : reportsId = s[1] /\ hasCache = s[2]
    BY Zenon DEF Init
  <2>2. s \in BOOLEAN \X BOOLEAN
    BY ImageAssumption
  <2> QED
    BY <2>1, <2>2, Zenon DEF Init, FlagsOK
<1>2. ShownOK /\ LogsOK /\ QueuesOK
  BY DEF Init, ShownOK, LogsOK, QueuesOK, Nil
<1>3. FramesOK /\ BlocksMatch
  BY DEF Init, FramesOK, MainFrame, BlockFrame, Free, Idle, MaybeURL, BlocksMatch, Nil
<1>4. DownloadMatchesURL
  BY DEF Init, DownloadMatchesURL
<1>5. LoadedOK
  BY DEF Init, LoadedOK, LoadedIsCurrent, Free
<1> QED
  BY <1>1, <1>2, <1>3, <1>4, <1>5 DEF IInv

-----------------------------------------------------------------------------
(* Logs of lookups and downloads only grow, and a download keeps its URL.  *)

Kept ==
  /\ downloads' \in Seq(Download)
  /\ Len(downloads) <= Len(downloads')
  /\ \A d \in DOMAIN downloads : downloads'[d].url = downloads[d].url

LEMMA StateChangeKeeps ==
  ASSUME LogsOK, NEW d \in DOMAIN downloads, NEW s \in {"running", "canceled", "missed", "done"},
         downloads' = [downloads EXCEPT ![d].state = s]
  PROVE  Kept /\ Len(downloads') = Len(downloads)
<1>1. downloads[d] \in Download
  BY DEF LogsOK
<1>2. [downloads[d] EXCEPT !.state = s] \in Download
  BY <1>1 DEF Download
<1>3. [downloads[d] EXCEPT !.state = s].url = downloads[d].url
  BY <1>1 DEF Download
<1>4. downloads' = [downloads EXCEPT ![d] = [downloads[d] EXCEPT !.state = s]]
  OBVIOUS
<1> QED
  BY <1>2, <1>3, <1>4 DEF LogsOK, Kept

LEMMA CancelKeeps ==
  ASSUME LogsOK, NEW d \in DOMAIN downloads, downloads' = Canceled(d)
  PROVE  Kept /\ Len(downloads') = Len(downloads)
<1>1. CASE downloads[d].state # "running"
  BY <1>1 DEF Canceled, Kept, LogsOK
<1>2. CASE downloads[d].state = "running"
  <2>1. downloads' = [downloads EXCEPT ![d].state = "canceled"]
    BY <1>2 DEF Canceled
  <2> QED
    BY <2>1, StateChangeKeeps
<1> QED
  BY <1>1, <1>2

\* A cancel keeps the downloads, and leaves no identifier.
LEMMA cancelKeeps ==
  ASSUME LogsOK, cancelImageDownload
  PROVE  /\ Kept /\ Len(downloads') = Len(downloads)
         /\ downloadId' = Nil
         /\ cacheUUID' \in 0 .. Len(lookups)
<1>1. CASE downloadId = Nil
  BY <1>1 DEF cancelImageDownload, Kept, LogsOK
<1>2. CASE downloadId # Nil
  <2>1. downloadId \in DOMAIN downloads
    BY <1>2 DEF LogsOK, Nil
  <2>2. downloads' = Canceled(downloadId) /\ downloadId' = Nil /\ cacheUUID' = Nil
    BY <1>2 DEF cancelImageDownload
  <2> QED
    BY <2>1, <2>2, CancelKeeps DEF LogsOK, Nil
<1> QED
  BY <1>1, <1>2

\* Blocks that stay hold on to their downloads.
LEMMA BlocksMatchKept ==
  ASSUME LogsOK, BlocksMatch, Kept, NEW b \in Blocks,
         blocks'[b].pc # "store" \/ blocks'[b] = blocks[b]
  PROVE  blocks'[b].pc = "store" =>
           /\ blocks'[b].id \in DOMAIN downloads'
           /\ downloads'[blocks'[b].id].url = blocks'[b].url
  BY DEF LogsOK, BlocksMatch, Kept

LEMMA MatchKept ==
  ASSUME LogsOK, DownloadMatchesURL, Kept,
         downloadId' = Nil \/ (downloadId' = downloadId /\ url' = url)
  PROVE  DownloadMatchesURL' /\ downloadId' \in 0 .. Len(downloads')
  BY DEF LogsOK, DownloadMatchesURL, Kept, Nil

\* A dispatched block has not asked the downloader.
LEMMA DispatchKeeps ==
  ASSUME FramesOK, downloadImage
  PROVE  /\ blocks' \in [Blocks -> BlockFrame]
         /\ \A b \in Blocks : blocks'[b].pc # "store" \/ blocks'[b] = blocks[b]
<1>1. PICK b \in Blocks : blocks' = [blocks EXCEPT ![b] = [Idle EXCEPT !.pc = "start"]]
  BY DEF downloadImage
<1>2. [Idle EXCEPT !.pc = "start"] \in BlockFrame /\ [Idle EXCEPT !.pc = "start"].pc = "start"
  BY DEF Idle, BlockFrame, MaybeURL, Nil
<1> QED
  BY <1>1, <1>2 DEF FramesOK
-----------------------------------------------------------------------------
(* Every step keeps each part of the invariant.                            *)

\* The flags stay Boolean.
LEMMA FlagsStep ==
  ASSUME IInv, [Next]_vars
  PROVE  FlagsOK'
<1>1. ASSUME NEW u \in MaybeURL, NEW reset \in Resets, SetURL(u, reset) PROVE FlagsOK'
  BY <1>1 DEF IInv, FlagsOK, SetURL, configVars, imageVars, setURL
<1>2. ASSUME NEW u \in MaybeURL, NEW reset \in Resets, SetURLOffMain(u, reset) PROVE FlagsOK'
  BY <1>2 DEF IInv, FlagsOK, SetURLOffMain, configVars, imageVars, setURL
<1>3. ASSUME SetImage PROVE FlagsOK'
  BY <1>3 DEF IInv, FlagsOK, SetImage, configVars, imageVars
<1>4. ASSUME RemoveImage PROVE FlagsOK'
  BY <1>4 DEF IInv, FlagsOK, RemoveImage, configVars, imageVars
<1>5. ASSUME EnterPreloadState PROVE FlagsOK'
  BY <1>5 DEF IInv, FlagsOK, EnterPreloadState, configVars, imageVars
<1>6. ASSUME ExitPreloadState PROVE FlagsOK'
  BY <1>6 DEF IInv, FlagsOK, ExitPreloadState, configVars, imageVars
<1>7. ASSUME NEW hit \in BOOLEAN, DisplayWillStart(hit) PROVE FlagsOK'
  BY <1>7 DEF IInv, FlagsOK, DisplayWillStart, configVars, imageVars
<1>8. ASSUME ReadState PROVE FlagsOK'
  BY <1>8 DEF IInv, FlagsOK, ReadState, configVars, imageVars
<1>9. ASSUME LoadFileURL PROVE FlagsOK'
  BY <1>9 DEF IInv, FlagsOK, LoadFileURL, configVars, imageVars
<1>10. ASSUME BeginLookup PROVE FlagsOK'
  BY <1>10 DEF IInv, FlagsOK, BeginLookup, configVars, imageVars
<1>11. ASSUME BeginDownload PROVE FlagsOK'
  BY <1>11 DEF IInv, FlagsOK, BeginDownload, configVars, imageVars
<1>12. ASSUME FinishCached PROVE FlagsOK'
  BY <1>12 DEF IInv, FlagsOK, FinishCached, configVars, imageVars
<1>13. ASSUME CancelDownloadAndClearImage PROVE FlagsOK'
  BY <1>13 DEF IInv, FlagsOK, CancelDownloadAndClearImage, configVars, imageVars
<1>14. ASSUME LoadFile PROVE FlagsOK'
  BY <1>14 DEF IInv, FlagsOK, LoadFile, configVars, imageVars
<1>15. ASSUME RunPreload PROVE FlagsOK'
  BY <1>15 DEF IInv, FlagsOK, RunPreload, configVars, imageVars
<1>16. ASSUME NEW l \in DOMAIN lookups, CacheDropped(l) PROVE FlagsOK'
  BY <1>16 DEF IInv, FlagsOK, CacheDropped, configVars, imageVars
<1>17. ASSUME NEW l \in DOMAIN lookups, CacheMiss(l) PROVE FlagsOK'
  BY <1>17 DEF IInv, FlagsOK, CacheMiss, configVars, imageVars
<1>18. ASSUME NEW l \in DOMAIN lookups, CacheHit(l) PROVE FlagsOK'
  BY <1>18 DEF IInv, FlagsOK, CacheHit, configVars, imageVars
<1>19. ASSUME NEW d \in DOMAIN downloads, NEW loaded \in BOOLEAN, FinishDownload(d, loaded) PROVE FlagsOK'
  BY <1>19 DEF IInv, FlagsOK, FinishDownload, configVars, imageVars
<1>20. ASSUME NEW d \in DOMAIN downloads, HandleProgress(d) PROVE FlagsOK'
  BY <1>20 DEF IInv, FlagsOK, HandleProgress, configVars, imageVars
<1>21. ASSUME NEW b \in Blocks, StartDownload(b) PROVE FlagsOK'
  BY <1>21 DEF IInv, FlagsOK, StartDownload, configVars, imageVars
<1>22. ASSUME NEW b \in Blocks, StoreIdentifier(b) PROVE FlagsOK'
  BY <1>22 DEF IInv, FlagsOK, StoreIdentifier, configVars, imageVars
<1>23. CASE UNCHANGED vars
  BY <1>23 DEF IInv, FlagsOK, vars, configVars, imageVars
<1> QED
  BY <1>1, <1>2, <1>3, <1>4, <1>5, <1>6, <1>7, <1>8, <1>9, <1>10, <1>11,
     <1>12, <1>13, <1>14, <1>15, <1>16, <1>17, <1>18, <1>19, <1>20, <1>21,
     <1>22, <1>23, Zenon DEF Next, Clients, MainSteps, MainQueue,
     CacheAnswers, DownloadsEnd, BlockSteps

\* The URL is one clients set, the image theirs or of a URL.
LEMMA ShownStep ==
  ASSUME IInv, [Next]_vars
  PROVE  ShownOK'
<1>1. ASSUME NEW u \in MaybeURL, NEW reset \in Resets, SetURL(u, reset) PROVE ShownOK'
  BY <1>1 DEF IInv, ShownOK, SetURL, imageVars, setURL
<1>2. ASSUME NEW u \in MaybeURL, NEW reset \in Resets, SetURLOffMain(u, reset) PROVE ShownOK'
  BY <1>2 DEF IInv, ShownOK, SetURLOffMain, imageVars, setURL
<1>3. ASSUME SetImage PROVE ShownOK'
  BY <1>3 DEF IInv, ShownOK, SetImage, imageVars
<1>4. ASSUME RemoveImage PROVE ShownOK'
  BY <1>4 DEF IInv, ShownOK, RemoveImage, imageVars
<1>5. ASSUME EnterPreloadState PROVE ShownOK'
  BY <1>5 DEF IInv, ShownOK, EnterPreloadState, imageVars
<1>6. ASSUME ExitPreloadState PROVE ShownOK'
  BY <1>6 DEF IInv, ShownOK, ExitPreloadState, imageVars
<1>7. ASSUME NEW hit \in BOOLEAN, DisplayWillStart(hit) PROVE ShownOK'
  BY <1>7 DEF IInv, ShownOK, DisplayWillStart, imageVars, MaybeURL
<1>8. ASSUME ReadState PROVE ShownOK'
  BY <1>8 DEF IInv, ShownOK, ReadState, imageVars
<1>9. ASSUME LoadFileURL PROVE ShownOK'
  BY <1>9 DEF IInv, ShownOK, LoadFileURL, imageVars
<1>10. ASSUME BeginLookup PROVE ShownOK'
  BY <1>10 DEF IInv, ShownOK, BeginLookup, imageVars
<1>11. ASSUME BeginDownload PROVE ShownOK'
  BY <1>11 DEF IInv, ShownOK, BeginDownload, imageVars
<1>12. ASSUME FinishCached PROVE ShownOK'
  BY <1>12 DEF IInv, ShownOK, FinishCached, imageVars, FramesOK, MainFrame, MaybeURL
<1>13. ASSUME CancelDownloadAndClearImage PROVE ShownOK'
  BY <1>13 DEF IInv, ShownOK, CancelDownloadAndClearImage, imageVars
<1>14. ASSUME LoadFile PROVE ShownOK'
  BY <1>14 DEF IInv, ShownOK, LoadFile, imageVars, MaybeURL
<1>15. ASSUME RunPreload PROVE ShownOK'
  BY <1>15 DEF IInv, ShownOK, RunPreload, imageVars
<1>16. ASSUME NEW l \in DOMAIN lookups, CacheDropped(l) PROVE ShownOK'
  BY <1>16 DEF IInv, ShownOK, CacheDropped, imageVars
<1>17. ASSUME NEW l \in DOMAIN lookups, CacheMiss(l) PROVE ShownOK'
  BY <1>17 DEF IInv, ShownOK, CacheMiss, imageVars
<1>18. ASSUME NEW l \in DOMAIN lookups, CacheHit(l) PROVE ShownOK'
  BY <1>18 DEF IInv, ShownOK, CacheHit, imageVars
<1>19. ASSUME NEW d \in DOMAIN downloads, NEW loaded \in BOOLEAN, FinishDownload(d, loaded) PROVE ShownOK'
  <2>1. downloads[d].url \in MaybeURL
    <3>1. downloads[d] \in Download
      BY DEF IInv, LogsOK
    <3> QED
      BY <3>1 DEF Download
  <2> QED
    BY <1>19, <2>1 DEF IInv, ShownOK, FinishDownload, imageVars, MaybeURL
<1>20. ASSUME NEW d \in DOMAIN downloads, HandleProgress(d) PROVE ShownOK'
  <2>1. downloads[d].url \in MaybeURL
    <3>1. downloads[d] \in Download
      BY DEF IInv, LogsOK
    <3> QED
      BY <3>1 DEF Download
  <2> QED
    BY <1>20, <2>1 DEF IInv, ShownOK, HandleProgress, imageVars, MaybeURL
<1>21. ASSUME NEW b \in Blocks, StartDownload(b) PROVE ShownOK'
  BY <1>21 DEF IInv, ShownOK, StartDownload, imageVars
<1>22. ASSUME NEW b \in Blocks, StoreIdentifier(b) PROVE ShownOK'
  BY <1>22 DEF IInv, ShownOK, StoreIdentifier, imageVars
<1>23. CASE UNCHANGED vars
  BY <1>23 DEF IInv, ShownOK, vars, imageVars
<1> QED
  BY <1>1, <1>2, <1>3, <1>4, <1>5, <1>6, <1>7, <1>8, <1>9, <1>10, <1>11,
     <1>12, <1>13, <1>14, <1>15, <1>16, <1>17, <1>18, <1>19, <1>20, <1>21,
     <1>22, <1>23, Zenon DEF Next, Clients, MainSteps, MainQueue,
     CacheAnswers, DownloadsEnd, BlockSteps

\* Downloads are kept.
LEMMA KeptStep ==
  ASSUME IInv, [Next]_vars
  PROVE  Kept
<1>1. ASSUME NEW u \in MaybeURL, NEW reset \in Resets, SetURL(u, reset) PROVE Kept
  BY <1>1, cancelKeeps DEF IInv, SetURL, setURL
<1>2. ASSUME NEW u \in MaybeURL, NEW reset \in Resets, SetURLOffMain(u, reset) PROVE Kept
  BY <1>2, cancelKeeps DEF IInv, SetURLOffMain, setURL
<1>3. ASSUME SetImage PROVE Kept
  <2>1. CASE external
    BY <1>3, <2>1 DEF IInv, LogsOK, Kept, SetImage
  <2>2. CASE ~external
    BY <1>3, <2>2, cancelKeeps DEF IInv, SetImage
  <2> QED
    BY <2>1, <2>2
<1>4. ASSUME RemoveImage PROVE Kept
  BY <1>4 DEF IInv, LogsOK, Kept, RemoveImage
<1>5. ASSUME EnterPreloadState PROVE Kept
  BY <1>5 DEF IInv, LogsOK, Kept, EnterPreloadState
<1>6. ASSUME ExitPreloadState PROVE Kept
  BY <1>6 DEF IInv, LogsOK, Kept, ExitPreloadState
<1>7. ASSUME NEW hit \in BOOLEAN, DisplayWillStart(hit) PROVE Kept
  BY <1>7 DEF IInv, LogsOK, Kept, DisplayWillStart
<1>8. ASSUME ReadState PROVE Kept
  BY <1>8 DEF IInv, LogsOK, Kept, ReadState
<1>9. ASSUME LoadFileURL PROVE Kept
  BY <1>9 DEF IInv, LogsOK, Kept, LoadFileURL
<1>10. ASSUME BeginLookup PROVE Kept
  BY <1>10 DEF IInv, LogsOK, Kept, BeginLookup
<1>11. ASSUME BeginDownload PROVE Kept
  BY <1>11 DEF IInv, LogsOK, Kept, BeginDownload
<1>12. ASSUME FinishCached PROVE Kept
  BY <1>12 DEF IInv, LogsOK, Kept, FinishCached
<1>13. ASSUME CancelDownloadAndClearImage PROVE Kept
  BY <1>13, cancelKeeps DEF IInv, CancelDownloadAndClearImage
<1>14. ASSUME LoadFile PROVE Kept
  BY <1>14 DEF IInv, LogsOK, Kept, LoadFile
<1>15. ASSUME RunPreload PROVE Kept
  BY <1>15 DEF IInv, LogsOK, Kept, RunPreload
<1>16. ASSUME NEW l \in DOMAIN lookups, CacheDropped(l) PROVE Kept
  BY <1>16 DEF IInv, LogsOK, Kept, CacheDropped
<1>17. ASSUME NEW l \in DOMAIN lookups, CacheMiss(l) PROVE Kept
  BY <1>17 DEF IInv, LogsOK, Kept, CacheMiss
<1>18. ASSUME NEW l \in DOMAIN lookups, CacheHit(l) PROVE Kept
  BY <1>18 DEF IInv, LogsOK, Kept, CacheHit
<1>19. ASSUME NEW d \in DOMAIN downloads, NEW loaded \in BOOLEAN, FinishDownload(d, loaded) PROVE Kept
  <2>1. PICK s \in {"missed", "done"} : downloads' = [downloads EXCEPT ![d].state = s]
    BY <1>19 DEF FinishDownload
  <2> QED
    BY <2>1, StateChangeKeeps DEF IInv
<1>20. ASSUME NEW d \in DOMAIN downloads, HandleProgress(d) PROVE Kept
  BY <1>20 DEF IInv, LogsOK, Kept, HandleProgress
<1>21. ASSUME NEW b \in Blocks, StartDownload(b) PROVE Kept
  <2>1. [url |-> url, state |-> "running"] \in Download
    BY DEF IInv, ShownOK, Download
  <2> QED
    BY <1>21, <2>1 DEF IInv, LogsOK, Kept, StartDownload
<1>22. ASSUME NEW b \in Blocks, StoreIdentifier(b) PROVE Kept
  <2>1. CASE blocks[b].url = url
    BY <1>22, <2>1 DEF IInv, LogsOK, Kept, StoreIdentifier
  <2>2. CASE blocks[b].url # url
    BY <1>22, <2>2, CancelKeeps DEF IInv, BlocksMatch, StoreIdentifier
  <2> QED
    BY <2>1, <2>2
<1>23. CASE UNCHANGED vars
  BY <1>23 DEF IInv, LogsOK, Kept, vars
<1> QED
  BY <1>1, <1>2, <1>3, <1>4, <1>5, <1>6, <1>7, <1>8, <1>9, <1>10, <1>11,
     <1>12, <1>13, <1>14, <1>15, <1>16, <1>17, <1>18, <1>19, <1>20, <1>21,
     <1>22, <1>23, Zenon DEF Next, Clients, MainSteps, MainQueue,
     CacheAnswers, DownloadsEnd, BlockSteps

\* Identifiers are of lookups and downloads begun.
LEMMA LogsStep ==
  ASSUME IInv, [Next]_vars
  PROVE  LogsOK'
<1>1. ASSUME NEW u \in MaybeURL, NEW reset \in Resets, SetURL(u, reset) PROVE LogsOK'
  BY <1>1, KeptStep, cancelKeeps DEF IInv, LogsOK, Kept, SetURL, Nil, setURL
<1>2. ASSUME NEW u \in MaybeURL, NEW reset \in Resets, SetURLOffMain(u, reset) PROVE LogsOK'
  BY <1>2, KeptStep, cancelKeeps DEF IInv, LogsOK, Kept, SetURLOffMain, Nil, setURL
<1>3. ASSUME SetImage PROVE LogsOK'
  <2>1. CASE external
    BY <1>3, <2>1 DEF IInv, LogsOK, SetImage, idVars
  <2>2. CASE ~external
    BY <1>3, <2>2, cancelKeeps DEF IInv, LogsOK, Kept, SetImage, Nil
  <2> QED
    BY <2>1, <2>2
<1>4. ASSUME RemoveImage PROVE LogsOK'
  BY <1>4 DEF IInv, LogsOK, RemoveImage, idVars, Nil
<1>5. ASSUME EnterPreloadState PROVE LogsOK'
  BY <1>5 DEF IInv, LogsOK, EnterPreloadState, idVars, Nil
<1>6. ASSUME ExitPreloadState PROVE LogsOK'
  BY <1>6 DEF IInv, LogsOK, ExitPreloadState, idVars, Nil
<1>7. ASSUME NEW hit \in BOOLEAN, DisplayWillStart(hit) PROVE LogsOK'
  BY <1>7 DEF IInv, LogsOK, DisplayWillStart, idVars, Nil
<1>8. ASSUME ReadState PROVE LogsOK'
  BY <1>8 DEF IInv, LogsOK, ReadState, idVars, Nil
<1>9. ASSUME LoadFileURL PROVE LogsOK'
  BY <1>9 DEF IInv, LogsOK, LoadFileURL, idVars, Nil
<1>10. ASSUME BeginLookup PROVE LogsOK'
  <2>1. [url |-> main.url, answered |-> FALSE] \in Lookup
    BY DEF IInv, FramesOK, MainFrame, Lookup
  <2> QED
    BY <1>10, <2>1 DEF IInv, LogsOK, BeginLookup
<1>11. ASSUME BeginDownload PROVE LogsOK'
  BY <1>11 DEF IInv, LogsOK, BeginDownload, idVars, Nil
<1>12. ASSUME FinishCached PROVE LogsOK'
  BY <1>12 DEF IInv, LogsOK, FinishCached, idVars, Nil
<1>13. ASSUME CancelDownloadAndClearImage PROVE LogsOK'
  BY <1>13, KeptStep, cancelKeeps DEF IInv, LogsOK, Kept, CancelDownloadAndClearImage, Nil
<1>14. ASSUME LoadFile PROVE LogsOK'
  BY <1>14 DEF IInv, LogsOK, LoadFile, idVars, Nil
<1>15. ASSUME RunPreload PROVE LogsOK'
  BY <1>15 DEF IInv, LogsOK, RunPreload, idVars, Nil
<1>16. ASSUME NEW l \in DOMAIN lookups, CacheDropped(l) PROVE LogsOK'
  <2>1. [lookups[l] EXCEPT !.answered = TRUE] \in Lookup
    <3>1. lookups[l] \in Lookup
      BY DEF IInv, LogsOK
    <3> QED
      BY <3>1 DEF Lookup
  <2>2. lookups' = [lookups EXCEPT ![l] = [lookups[l] EXCEPT !.answered = TRUE]]
    BY <1>16 DEF CacheDropped, AnswerLookup
  <2>3. lookups' \in Seq(Lookup) /\ Len(lookups') = Len(lookups)
    BY <2>1, <2>2 DEF IInv, LogsOK
  <2> QED
    BY <1>16, <2>3 DEF IInv, LogsOK, CacheDropped, idVars
<1>17. ASSUME NEW l \in DOMAIN lookups, CacheMiss(l) PROVE LogsOK'
  <2>1. [lookups[l] EXCEPT !.answered = TRUE] \in Lookup
    <3>1. lookups[l] \in Lookup
      BY DEF IInv, LogsOK
    <3> QED
      BY <3>1 DEF Lookup
  <2>2. lookups' = [lookups EXCEPT ![l] = [lookups[l] EXCEPT !.answered = TRUE]]
    BY <1>17 DEF CacheMiss, AnswerLookup
  <2>3. lookups' \in Seq(Lookup) /\ Len(lookups') = Len(lookups)
    BY <2>1, <2>2 DEF IInv, LogsOK
  <2> QED
    BY <1>17, <2>3 DEF IInv, LogsOK, CacheMiss, idVars
<1>18. ASSUME NEW l \in DOMAIN lookups, CacheHit(l) PROVE LogsOK'
  <2>1. [lookups[l] EXCEPT !.answered = TRUE] \in Lookup
    <3>1. lookups[l] \in Lookup
      BY DEF IInv, LogsOK
    <3> QED
      BY <3>1 DEF Lookup
  <2>2. lookups' = [lookups EXCEPT ![l] = [lookups[l] EXCEPT !.answered = TRUE]]
    BY <1>18 DEF CacheHit, AnswerLookup
  <2>3. lookups' \in Seq(Lookup) /\ Len(lookups') = Len(lookups)
    BY <2>1, <2>2 DEF IInv, LogsOK
  <2> QED
    BY <1>18, <2>3 DEF IInv, LogsOK, CacheHit, idVars
<1>19. ASSUME NEW d \in DOMAIN downloads, NEW loaded \in BOOLEAN, FinishDownload(d, loaded) PROVE LogsOK'
  BY <1>19, KeptStep DEF IInv, LogsOK, Kept, FinishDownload, idVars, Nil
<1>20. ASSUME NEW d \in DOMAIN downloads, HandleProgress(d) PROVE LogsOK'
  BY <1>20 DEF IInv, LogsOK, HandleProgress, idVars, Nil
<1>21. ASSUME NEW b \in Blocks, StartDownload(b) PROVE LogsOK'
  BY <1>21, KeptStep DEF IInv, LogsOK, Kept, StartDownload, idVars
<1>22. ASSUME NEW b \in Blocks, StoreIdentifier(b) PROVE LogsOK'
  BY <1>22, KeptStep DEF IInv, LogsOK, Kept, StoreIdentifier, BlocksMatch
<1>23. CASE UNCHANGED vars
  BY <1>23 DEF IInv, LogsOK, vars, idVars
<1> QED
  BY <1>1, <1>2, <1>3, <1>4, <1>5, <1>6, <1>7, <1>8, <1>9, <1>10, <1>11,
     <1>12, <1>13, <1>14, <1>15, <1>16, <1>17, <1>18, <1>19, <1>20, <1>21,
     <1>22, <1>23, Zenon DEF Next, Clients, MainSteps, MainQueue,
     CacheAnswers, DownloadsEnd, BlockSteps

\* The main thread and the blocks are at one of their places.
LEMMA FramesStep ==
  ASSUME IInv, [Next]_vars
  PROVE  FramesOK'
<1>1. ASSUME NEW u \in MaybeURL, NEW reset \in Resets, SetURL(u, reset) PROVE FramesOK'
  BY <1>1 DEF IInv, FramesOK, SetURL, MainFrame, Free, MaybeURL
<1>2. ASSUME NEW u \in MaybeURL, NEW reset \in Resets, SetURLOffMain(u, reset) PROVE FramesOK'
  BY <1>2 DEF IInv, FramesOK, SetURLOffMain, MainFrame, Free, MaybeURL
<1>3. ASSUME SetImage PROVE FramesOK'
  BY <1>3 DEF IInv, FramesOK, SetImage, MainFrame, Free, MaybeURL
<1>4. ASSUME RemoveImage PROVE FramesOK'
  BY <1>4 DEF IInv, FramesOK, RemoveImage, MainFrame, Free, MaybeURL
<1>5. ASSUME EnterPreloadState PROVE FramesOK'
  BY <1>5 DEF IInv, FramesOK, EnterPreloadState, MainFrame, Free, MaybeURL
<1>6. ASSUME ExitPreloadState PROVE FramesOK'
  BY <1>6 DEF IInv, FramesOK, ExitPreloadState, MainFrame, Free, MaybeURL
<1>7. ASSUME NEW hit \in BOOLEAN, DisplayWillStart(hit) PROVE FramesOK'
  BY <1>7 DEF IInv, FramesOK, DisplayWillStart, MainFrame, Free, MaybeURL
<1>8. ASSUME ReadState PROVE FramesOK'
  BY <1>8 DEF IInv, FramesOK, ShownOK, ReadState, MainFrame, Free, MaybeURL
<1>9. ASSUME LoadFileURL PROVE FramesOK'
  BY <1>9 DEF IInv, FramesOK, LoadFileURL, MainFrame, Free, MaybeURL
<1>10. ASSUME BeginLookup PROVE FramesOK'
  BY <1>10 DEF IInv, FramesOK, BeginLookup, MainFrame, Free, MaybeURL
<1>11. ASSUME BeginDownload PROVE FramesOK'
  BY <1>11, DispatchKeeps DEF IInv, FramesOK, BeginDownload, MainFrame, Free, MaybeURL
<1>12. ASSUME FinishCached PROVE FramesOK'
  BY <1>12 DEF IInv, FramesOK, FinishCached, MainFrame, Free, MaybeURL
<1>13. ASSUME CancelDownloadAndClearImage PROVE FramesOK'
  BY <1>13 DEF IInv, FramesOK, CancelDownloadAndClearImage, MainFrame, Free, MaybeURL
<1>14. ASSUME LoadFile PROVE FramesOK'
  BY <1>14 DEF IInv, FramesOK, LoadFile, MainFrame, Free, MaybeURL
<1>15. ASSUME RunPreload PROVE FramesOK'
  BY <1>15 DEF IInv, FramesOK, RunPreload, MainFrame, Free, MaybeURL
<1>16. ASSUME NEW l \in DOMAIN lookups, CacheDropped(l) PROVE FramesOK'
  BY <1>16 DEF IInv, FramesOK, CacheDropped, MainFrame, Free, MaybeURL
<1>17. ASSUME NEW l \in DOMAIN lookups, CacheMiss(l) PROVE FramesOK'
  BY <1>17, DispatchKeeps DEF IInv, FramesOK, CacheMiss, MainFrame, Free, MaybeURL
<1>18. ASSUME NEW l \in DOMAIN lookups, CacheHit(l) PROVE FramesOK'
  <2>1. lookups[l].url \in MaybeURL
    <3>1. lookups[l] \in Lookup
      BY DEF IInv, LogsOK
    <3> QED
      BY <3>1 DEF Lookup
  <2> QED
    BY <1>18, <2>1 DEF IInv, FramesOK, CacheHit, MainFrame
<1>19. ASSUME NEW d \in DOMAIN downloads, NEW loaded \in BOOLEAN, FinishDownload(d, loaded) PROVE FramesOK'
  BY <1>19 DEF IInv, FramesOK, FinishDownload, MainFrame, Free, MaybeURL
<1>20. ASSUME NEW d \in DOMAIN downloads, HandleProgress(d) PROVE FramesOK'
  BY <1>20 DEF IInv, FramesOK, HandleProgress, MainFrame, Free, MaybeURL
<1>21. ASSUME NEW b \in Blocks, StartDownload(b) PROVE FramesOK'
  <2>1. [pc |-> "store", url |-> url, id |-> Len(downloads')] \in BlockFrame
    BY KeptStep DEF Kept, IInv, ShownOK, BlockFrame
  <2> QED
    BY <1>21, <2>1 DEF IInv, FramesOK, StartDownload
<1>22. ASSUME NEW b \in Blocks, StoreIdentifier(b) PROVE FramesOK'
  <2>1. Idle \in BlockFrame /\ [Idle EXCEPT !.pc = "start"] \in BlockFrame
    BY DEF Idle, BlockFrame, MaybeURL, Nil
  <2> QED
    BY <1>22, <2>1 DEF IInv, FramesOK, StoreIdentifier
<1>23. CASE UNCHANGED vars
  BY <1>23 DEF IInv, FramesOK, vars
<1> QED
  BY <1>1, <1>2, <1>3, <1>4, <1>5, <1>6, <1>7, <1>8, <1>9, <1>10, <1>11,
     <1>12, <1>13, <1>14, <1>15, <1>16, <1>17, <1>18, <1>19, <1>20, <1>21,
     <1>22, <1>23, Zenon DEF Next, Clients, MainSteps, MainQueue,
     CacheAnswers, DownloadsEnd, BlockSteps

\* The main queue's blocks are of URLs and counted.
LEMMA QueuesStep ==
  ASSUME IInv, [Next]_vars
  PROVE  QueuesOK'
<1>1. ASSUME NEW u \in MaybeURL, NEW reset \in Resets, SetURL(u, reset) PROVE QueuesOK'
  BY <1>1 DEF IInv, QueuesOK, SetURL, queueVars, Event
<1>2. ASSUME NEW u \in MaybeURL, NEW reset \in Resets, SetURLOffMain(u, reset) PROVE QueuesOK'
  BY <1>2 DEF IInv, QueuesOK, SetURLOffMain, queueVars, Event
<1>3. ASSUME SetImage PROVE QueuesOK'
  BY <1>3 DEF IInv, QueuesOK, SetImage, queueVars, Event
<1>4. ASSUME RemoveImage PROVE QueuesOK'
  BY <1>4 DEF IInv, QueuesOK, RemoveImage, queueVars, Event
<1>5. ASSUME EnterPreloadState PROVE QueuesOK'
  BY <1>5 DEF IInv, QueuesOK, EnterPreloadState, queueVars, Event
<1>6. ASSUME ExitPreloadState PROVE QueuesOK'
  BY <1>6 DEF IInv, QueuesOK, ExitPreloadState, queueVars, Event
<1>7. ASSUME NEW hit \in BOOLEAN, DisplayWillStart(hit) PROVE QueuesOK'
  BY <1>7 DEF IInv, QueuesOK, DisplayWillStart, queueVars, Event
<1>8. ASSUME ReadState PROVE QueuesOK'
  BY <1>8 DEF IInv, QueuesOK, ReadState, queueVars
<1>9. ASSUME LoadFileURL PROVE QueuesOK'
  BY <1>9 DEF IInv, QueuesOK, LoadFileURL, queueVars, FramesOK, MainFrame
<1>10. ASSUME BeginLookup PROVE QueuesOK'
  BY <1>10 DEF IInv, QueuesOK, BeginLookup, queueVars
<1>11. ASSUME BeginDownload PROVE QueuesOK'
  BY <1>11 DEF IInv, QueuesOK, BeginDownload, queueVars
<1>12. ASSUME FinishCached PROVE QueuesOK'
  BY <1>12 DEF IInv, QueuesOK, FinishCached, queueVars
<1>13. ASSUME CancelDownloadAndClearImage PROVE QueuesOK'
  BY <1>13 DEF IInv, QueuesOK, CancelDownloadAndClearImage, queueVars
<1>14. ASSUME LoadFile PROVE QueuesOK'
  BY <1>14 DEF IInv, QueuesOK, LoadFile, queueVars
<1>15. ASSUME RunPreload PROVE QueuesOK'
  BY <1>15 DEF IInv, QueuesOK, RunPreload, queueVars
<1>16. ASSUME NEW l \in DOMAIN lookups, CacheDropped(l) PROVE QueuesOK'
  BY <1>16 DEF IInv, QueuesOK, CacheDropped, queueVars
<1>17. ASSUME NEW l \in DOMAIN lookups, CacheMiss(l) PROVE QueuesOK'
  BY <1>17 DEF IInv, QueuesOK, CacheMiss, queueVars
<1>18. ASSUME NEW l \in DOMAIN lookups, CacheHit(l) PROVE QueuesOK'
  BY <1>18 DEF IInv, QueuesOK, CacheHit, queueVars
<1>19. ASSUME NEW d \in DOMAIN downloads, NEW loaded \in BOOLEAN, FinishDownload(d, loaded) PROVE QueuesOK'
  BY <1>19 DEF IInv, QueuesOK, FinishDownload, queueVars
<1>20. ASSUME NEW d \in DOMAIN downloads, HandleProgress(d) PROVE QueuesOK'
  BY <1>20 DEF IInv, QueuesOK, HandleProgress, queueVars
<1>21. ASSUME NEW b \in Blocks, StartDownload(b) PROVE QueuesOK'
  BY <1>21 DEF IInv, QueuesOK, StartDownload, queueVars
<1>22. ASSUME NEW b \in Blocks, StoreIdentifier(b) PROVE QueuesOK'
  BY <1>22 DEF IInv, QueuesOK, StoreIdentifier, queueVars
<1>23. CASE UNCHANGED vars
  BY <1>23 DEF IInv, QueuesOK, vars, queueVars
<1> QED
  BY <1>1, <1>2, <1>3, <1>4, <1>5, <1>6, <1>7, <1>8, <1>9, <1>10, <1>11,
     <1>12, <1>13, <1>14, <1>15, <1>16, <1>17, <1>18, <1>19, <1>20, <1>21,
     <1>22, <1>23, Zenon DEF Next, Clients, MainSteps, MainQueue,
     CacheAnswers, DownloadsEnd, BlockSteps

\* Blocks hold downloads of the URLs they asked for.
LEMMA BlocksMatchStep ==
  ASSUME IInv, [Next]_vars
  PROVE  BlocksMatch'
<1>1. ASSUME NEW u \in MaybeURL, NEW reset \in Resets, SetURL(u, reset) PROVE BlocksMatch'
  BY <1>1, KeptStep, BlocksMatchKept DEF IInv, BlocksMatch, SetURL
<1>2. ASSUME NEW u \in MaybeURL, NEW reset \in Resets, SetURLOffMain(u, reset) PROVE BlocksMatch'
  BY <1>2, KeptStep, BlocksMatchKept DEF IInv, BlocksMatch, SetURLOffMain
<1>3. ASSUME SetImage PROVE BlocksMatch'
  BY <1>3, KeptStep, BlocksMatchKept DEF IInv, BlocksMatch, SetImage
<1>4. ASSUME RemoveImage PROVE BlocksMatch'
  BY <1>4, KeptStep, BlocksMatchKept DEF IInv, BlocksMatch, RemoveImage
<1>5. ASSUME EnterPreloadState PROVE BlocksMatch'
  BY <1>5, KeptStep, BlocksMatchKept DEF IInv, BlocksMatch, EnterPreloadState
<1>6. ASSUME ExitPreloadState PROVE BlocksMatch'
  BY <1>6, KeptStep, BlocksMatchKept DEF IInv, BlocksMatch, ExitPreloadState
<1>7. ASSUME NEW hit \in BOOLEAN, DisplayWillStart(hit) PROVE BlocksMatch'
  BY <1>7, KeptStep, BlocksMatchKept DEF IInv, BlocksMatch, DisplayWillStart
<1>8. ASSUME ReadState PROVE BlocksMatch'
  BY <1>8, KeptStep, BlocksMatchKept DEF IInv, BlocksMatch, ReadState
<1>9. ASSUME LoadFileURL PROVE BlocksMatch'
  BY <1>9, KeptStep, BlocksMatchKept DEF IInv, BlocksMatch, LoadFileURL
<1>10. ASSUME BeginLookup PROVE BlocksMatch'
  BY <1>10, KeptStep, BlocksMatchKept DEF IInv, BlocksMatch, BeginLookup
<1>11. ASSUME BeginDownload PROVE BlocksMatch'
  <2>1. \A b \in Blocks : blocks'[b].pc # "store" \/ blocks'[b] = blocks[b]
    BY <1>11, DispatchKeeps DEF IInv, BeginDownload
  <2> QED
    BY <2>1, KeptStep, BlocksMatchKept DEF IInv, BlocksMatch
<1>12. ASSUME FinishCached PROVE BlocksMatch'
  BY <1>12, KeptStep, BlocksMatchKept DEF IInv, BlocksMatch, FinishCached
<1>13. ASSUME CancelDownloadAndClearImage PROVE BlocksMatch'
  BY <1>13, KeptStep, BlocksMatchKept DEF IInv, BlocksMatch, CancelDownloadAndClearImage
<1>14. ASSUME LoadFile PROVE BlocksMatch'
  BY <1>14, KeptStep, BlocksMatchKept DEF IInv, BlocksMatch, LoadFile
<1>15. ASSUME RunPreload PROVE BlocksMatch'
  BY <1>15, KeptStep, BlocksMatchKept DEF IInv, BlocksMatch, RunPreload
<1>16. ASSUME NEW l \in DOMAIN lookups, CacheDropped(l) PROVE BlocksMatch'
  BY <1>16, KeptStep, BlocksMatchKept DEF IInv, BlocksMatch, CacheDropped
<1>17. ASSUME NEW l \in DOMAIN lookups, CacheMiss(l) PROVE BlocksMatch'
  <2>1. \A b \in Blocks : blocks'[b].pc # "store" \/ blocks'[b] = blocks[b]
    BY <1>17, DispatchKeeps DEF IInv, CacheMiss
  <2> QED
    BY <2>1, KeptStep, BlocksMatchKept DEF IInv, BlocksMatch
<1>18. ASSUME NEW l \in DOMAIN lookups, CacheHit(l) PROVE BlocksMatch'
  BY <1>18, KeptStep, BlocksMatchKept DEF IInv, BlocksMatch, CacheHit
<1>19. ASSUME NEW d \in DOMAIN downloads, NEW loaded \in BOOLEAN, FinishDownload(d, loaded) PROVE BlocksMatch'
  BY <1>19, KeptStep, BlocksMatchKept DEF IInv, BlocksMatch, FinishDownload
<1>20. ASSUME NEW d \in DOMAIN downloads, HandleProgress(d) PROVE BlocksMatch'
  BY <1>20, KeptStep, BlocksMatchKept DEF IInv, BlocksMatch, HandleProgress
<1>21. ASSUME NEW b \in Blocks, StartDownload(b) PROVE BlocksMatch'
  <2>1. ASSUME NEW c \in Blocks, c # b, blocks'[c].pc = "store"
        PROVE  blocks'[c].id \in DOMAIN downloads' /\ downloads'[blocks'[c].id].url = blocks'[c].url
    <3>1. blocks'[c] = blocks[c]
      BY <1>21, <2>1 DEF StartDownload, IInv, FramesOK
    <3> QED
      BY <2>1, <3>1, KeptStep, BlocksMatchKept DEF IInv
  <2>2. blocks'[b].id \in DOMAIN downloads' /\ downloads'[blocks'[b].id].url = blocks'[b].url
    <3>1. blocks'[b] = [pc |-> "store", url |-> url, id |-> Len(downloads')]
      BY <1>21 DEF StartDownload, IInv, FramesOK
    <3>2. Len(downloads') \in DOMAIN downloads' /\ downloads'[Len(downloads')].url = url
      BY <1>21 DEF StartDownload, IInv, LogsOK
    <3> QED
      BY <3>1, <3>2
  <2> QED
    BY <2>1, <2>2 DEF BlocksMatch
<1>22. ASSUME NEW b \in Blocks, StoreIdentifier(b) PROVE BlocksMatch'
  <2>1. \A c \in Blocks : blocks'[c].pc # "store" \/ blocks'[c] = blocks[c]
    BY <1>22 DEF IInv, FramesOK, StoreIdentifier, Idle
  <2> QED
    BY <2>1, KeptStep, BlocksMatchKept DEF IInv, BlocksMatch
<1>23. CASE UNCHANGED vars
  BY <1>23, KeptStep, BlocksMatchKept DEF IInv, BlocksMatch, vars
<1> QED
  BY <1>1, <1>2, <1>3, <1>4, <1>5, <1>6, <1>7, <1>8, <1>9, <1>10, <1>11,
     <1>12, <1>13, <1>14, <1>15, <1>16, <1>17, <1>18, <1>19, <1>20, <1>21,
     <1>22, <1>23, Zenon DEF Next, Clients, MainSteps, MainQueue,
     CacheAnswers, DownloadsEnd, BlockSteps

\* The stored identifier is of a download of the URL.
LEMMA MatchStep ==
  ASSUME IInv, [Next]_vars
  PROVE  DownloadMatchesURL'
<1>1. ASSUME NEW u \in MaybeURL, NEW reset \in Resets, SetURL(u, reset) PROVE DownloadMatchesURL'
  BY <1>1, KeptStep, cancelKeeps, MatchKept DEF IInv, SetURL, setURL
<1>2. ASSUME NEW u \in MaybeURL, NEW reset \in Resets, SetURLOffMain(u, reset) PROVE DownloadMatchesURL'
  BY <1>2, KeptStep, cancelKeeps, MatchKept DEF IInv, SetURLOffMain, setURL
<1>3. ASSUME SetImage PROVE DownloadMatchesURL'
  <2>1. downloadId' = Nil \/ (downloadId' = downloadId /\ url' = url)
    BY <1>3, cancelKeeps DEF IInv, SetImage, idVars
  <2> QED
    BY <2>1, KeptStep, MatchKept DEF IInv
<1>4. ASSUME RemoveImage PROVE DownloadMatchesURL'
  BY <1>4, KeptStep, MatchKept DEF IInv, RemoveImage, idVars
<1>5. ASSUME EnterPreloadState PROVE DownloadMatchesURL'
  BY <1>5, KeptStep, MatchKept DEF IInv, EnterPreloadState, idVars
<1>6. ASSUME ExitPreloadState PROVE DownloadMatchesURL'
  BY <1>6, KeptStep, MatchKept DEF IInv, ExitPreloadState, idVars
<1>7. ASSUME NEW hit \in BOOLEAN, DisplayWillStart(hit) PROVE DownloadMatchesURL'
  BY <1>7, KeptStep, MatchKept DEF IInv, DisplayWillStart, idVars
<1>8. ASSUME ReadState PROVE DownloadMatchesURL'
  BY <1>8, KeptStep, MatchKept DEF IInv, ReadState, idVars
<1>9. ASSUME LoadFileURL PROVE DownloadMatchesURL'
  BY <1>9, KeptStep, MatchKept DEF IInv, LoadFileURL, idVars
<1>10. ASSUME BeginLookup PROVE DownloadMatchesURL'
  BY <1>10, KeptStep, MatchKept DEF IInv, BeginLookup, idVars
<1>11. ASSUME BeginDownload PROVE DownloadMatchesURL'
  BY <1>11, KeptStep, MatchKept DEF IInv, BeginDownload, idVars
<1>12. ASSUME FinishCached PROVE DownloadMatchesURL'
  BY <1>12, KeptStep, MatchKept DEF IInv, FinishCached, idVars
<1>13. ASSUME CancelDownloadAndClearImage PROVE DownloadMatchesURL'
  BY <1>13, KeptStep, cancelKeeps, MatchKept DEF IInv, CancelDownloadAndClearImage
<1>14. ASSUME LoadFile PROVE DownloadMatchesURL'
  BY <1>14, KeptStep, MatchKept DEF IInv, LoadFile, idVars
<1>15. ASSUME RunPreload PROVE DownloadMatchesURL'
  BY <1>15, KeptStep, MatchKept DEF IInv, RunPreload, idVars
<1>16. ASSUME NEW l \in DOMAIN lookups, CacheDropped(l) PROVE DownloadMatchesURL'
  BY <1>16, KeptStep, MatchKept DEF IInv, CacheDropped, idVars
<1>17. ASSUME NEW l \in DOMAIN lookups, CacheMiss(l) PROVE DownloadMatchesURL'
  BY <1>17, KeptStep, MatchKept DEF IInv, CacheMiss, idVars
<1>18. ASSUME NEW l \in DOMAIN lookups, CacheHit(l) PROVE DownloadMatchesURL'
  BY <1>18, KeptStep, MatchKept DEF IInv, CacheHit, idVars
<1>19. ASSUME NEW d \in DOMAIN downloads, NEW loaded \in BOOLEAN, FinishDownload(d, loaded) PROVE DownloadMatchesURL'
  BY <1>19, KeptStep, MatchKept DEF IInv, FinishDownload, idVars
<1>20. ASSUME NEW d \in DOMAIN downloads, HandleProgress(d) PROVE DownloadMatchesURL'
  BY <1>20, KeptStep, MatchKept DEF IInv, HandleProgress, idVars
<1>21. ASSUME NEW b \in Blocks, StartDownload(b) PROVE DownloadMatchesURL'
  BY <1>21, KeptStep, MatchKept DEF IInv, StartDownload, idVars
<1>22. ASSUME NEW b \in Blocks, StoreIdentifier(b) PROVE DownloadMatchesURL'
  <2>1. CASE blocks[b].url = url
    <3>1. downloadId' = blocks[b].id /\ url' = url /\ downloads' = downloads
      BY <1>22, <2>1 DEF StoreIdentifier
    <3>2. downloads[blocks[b].id].url = url
      BY <1>22, <2>1 DEF StoreIdentifier, IInv, BlocksMatch
    <3> QED
      BY <3>1, <3>2 DEF DownloadMatchesURL
  <2>2. CASE blocks[b].url # url
    BY <1>22, <2>2, KeptStep, MatchKept DEF IInv, StoreIdentifier
  <2> QED
    BY <2>1, <2>2
<1>23. CASE UNCHANGED vars
  BY <1>23, KeptStep, MatchKept DEF IInv, vars, idVars
<1> QED
  BY <1>1, <1>2, <1>3, <1>4, <1>5, <1>6, <1>7, <1>8, <1>9, <1>10, <1>11,
     <1>12, <1>13, <1>14, <1>15, <1>16, <1>17, <1>18, <1>19, <1>20, <1>21,
     <1>22, <1>23, Zenon DEF Next, Clients, MainSteps, MainQueue,
     CacheAnswers, DownloadsEnd, BlockSteps

\* Images come from the download of the current URL, or as the URL's own.
LEMMA NoForeignStep ==
  ASSUME IInv, [Next]_vars
  PROVE  (reportsId /\ main.pc # "cached" /\ image' # image /\ image' \in URLs => image' = url')
<1>1. ASSUME NEW u \in MaybeURL, NEW reset \in Resets, SetURL(u, reset) PROVE (reportsId /\ main.pc # "cached" /\ image' # image /\ image' \in URLs => image' = url')
  BY <1>1, ImageAssumption DEF SetURL, imageVars, setURL
<1>2. ASSUME NEW u \in MaybeURL, NEW reset \in Resets, SetURLOffMain(u, reset) PROVE (reportsId /\ main.pc # "cached" /\ image' # image /\ image' \in URLs => image' = url')
  BY <1>2, ImageAssumption DEF SetURLOffMain, imageVars, setURL
<1>3. ASSUME SetImage PROVE (reportsId /\ main.pc # "cached" /\ image' # image /\ image' \in URLs => image' = url')
  BY <1>3, ImageAssumption DEF SetImage, imageVars
<1>4. ASSUME RemoveImage PROVE (reportsId /\ main.pc # "cached" /\ image' # image /\ image' \in URLs => image' = url')
  BY <1>4, ImageAssumption DEF RemoveImage, imageVars
<1>5. ASSUME EnterPreloadState PROVE (reportsId /\ main.pc # "cached" /\ image' # image /\ image' \in URLs => image' = url')
  BY <1>5, ImageAssumption DEF EnterPreloadState, imageVars
<1>6. ASSUME ExitPreloadState PROVE (reportsId /\ main.pc # "cached" /\ image' # image /\ image' \in URLs => image' = url')
  BY <1>6, ImageAssumption DEF ExitPreloadState, imageVars
<1>7. ASSUME NEW hit \in BOOLEAN, DisplayWillStart(hit) PROVE (reportsId /\ main.pc # "cached" /\ image' # image /\ image' \in URLs => image' = url')
  BY <1>7, ImageAssumption DEF DisplayWillStart, imageVars
<1>8. ASSUME ReadState PROVE (reportsId /\ main.pc # "cached" /\ image' # image /\ image' \in URLs => image' = url')
  BY <1>8, ImageAssumption DEF ReadState, imageVars
<1>9. ASSUME LoadFileURL PROVE (reportsId /\ main.pc # "cached" /\ image' # image /\ image' \in URLs => image' = url')
  BY <1>9, ImageAssumption DEF LoadFileURL, imageVars
<1>10. ASSUME BeginLookup PROVE (reportsId /\ main.pc # "cached" /\ image' # image /\ image' \in URLs => image' = url')
  BY <1>10, ImageAssumption DEF BeginLookup, imageVars
<1>11. ASSUME BeginDownload PROVE (reportsId /\ main.pc # "cached" /\ image' # image /\ image' \in URLs => image' = url')
  BY <1>11, ImageAssumption DEF BeginDownload, imageVars
<1>12. ASSUME FinishCached PROVE (reportsId /\ main.pc # "cached" /\ image' # image /\ image' \in URLs => image' = url')
  BY <1>12, ImageAssumption DEF FinishCached, imageVars
<1>13. ASSUME CancelDownloadAndClearImage PROVE (reportsId /\ main.pc # "cached" /\ image' # image /\ image' \in URLs => image' = url')
  BY <1>13, ImageAssumption DEF CancelDownloadAndClearImage, imageVars
<1>14. ASSUME LoadFile PROVE (reportsId /\ main.pc # "cached" /\ image' # image /\ image' \in URLs => image' = url')
  BY <1>14, ImageAssumption DEF LoadFile, imageVars
<1>15. ASSUME RunPreload PROVE (reportsId /\ main.pc # "cached" /\ image' # image /\ image' \in URLs => image' = url')
  BY <1>15, ImageAssumption DEF RunPreload, imageVars
<1>16. ASSUME NEW l \in DOMAIN lookups, CacheDropped(l) PROVE (reportsId /\ main.pc # "cached" /\ image' # image /\ image' \in URLs => image' = url')
  BY <1>16, ImageAssumption DEF CacheDropped, imageVars
<1>17. ASSUME NEW l \in DOMAIN lookups, CacheMiss(l) PROVE (reportsId /\ main.pc # "cached" /\ image' # image /\ image' \in URLs => image' = url')
  BY <1>17, ImageAssumption DEF CacheMiss, imageVars
<1>18. ASSUME NEW l \in DOMAIN lookups, CacheHit(l) PROVE (reportsId /\ main.pc # "cached" /\ image' # image /\ image' \in URLs => image' = url')
  BY <1>18, ImageAssumption DEF CacheHit, imageVars
<1>19. ASSUME NEW d \in DOMAIN downloads, NEW loaded \in BOOLEAN, FinishDownload(d, loaded) PROVE (reportsId /\ main.pc # "cached" /\ image' # image /\ image' \in URLs => image' = url')
  <2>1. CASE IsForeign(d)
    BY <1>19, <2>1 DEF FinishDownload
  <2>2. CASE ~IsForeign(d)
    <3>1. reportsId => downloadId = d
      BY <2>2 DEF IsForeign
    <3>2. downloadId = d => downloads[d].url = url
      BY DEF IInv, LogsOK, DownloadMatchesURL, Nil
    <3> QED
      BY <1>19, <2>2, <3>1, <3>2 DEF FinishDownload
  <2> QED
    BY <2>1, <2>2
<1>20. ASSUME NEW d \in DOMAIN downloads, HandleProgress(d) PROVE (reportsId /\ main.pc # "cached" /\ image' # image /\ image' \in URLs => image' = url')
  <2>1. CASE IsForeign(d)
    BY <1>20, <2>1 DEF HandleProgress
  <2>2. CASE ~IsForeign(d)
    <3>1. reportsId => downloadId = d
      BY <2>2 DEF IsForeign
    <3>2. downloadId = d => downloads[d].url = url
      BY DEF IInv, LogsOK, DownloadMatchesURL, Nil
    <3> QED
      BY <1>20, <2>2, <3>1, <3>2 DEF HandleProgress
  <2> QED
    BY <2>1, <2>2
<1>21. ASSUME NEW b \in Blocks, StartDownload(b) PROVE (reportsId /\ main.pc # "cached" /\ image' # image /\ image' \in URLs => image' = url')
  BY <1>21, ImageAssumption DEF StartDownload, imageVars
<1>22. ASSUME NEW b \in Blocks, StoreIdentifier(b) PROVE (reportsId /\ main.pc # "cached" /\ image' # image /\ image' \in URLs => image' = url')
  BY <1>22, ImageAssumption DEF StoreIdentifier, imageVars
<1>23. CASE UNCHANGED vars
  BY <1>23 DEF vars, imageVars
<1> QED
  BY <1>1, <1>2, <1>3, <1>4, <1>5, <1>6, <1>7, <1>8, <1>9, <1>10, <1>11,
     <1>12, <1>13, <1>14, <1>15, <1>16, <1>17, <1>18, <1>19, <1>20, <1>21,
     <1>22, <1>23, Zenon DEF Next, Clients, MainSteps, MainQueue,
     CacheAnswers, DownloadsEnd, BlockSteps

\* _imageLoaded stands for the image of the URL.
LEMMA LoadedStep ==
  ASSUME IInv, [Next]_vars
  PROVE  LoadedOK'
<1> USE DEF LoadedOK, LoadedIsCurrent, configVars, imageVars, queueVars
<1> FileURLs \subseteq URLs /\ NoURL \notin URLs
  BY ImageAssumption
<1>1. ASSUME NEW u \in MaybeURL, NEW reset \in Resets, SetURL(u, reset) PROVE LoadedOK'
  BY <1>1 DEF IInv, SetURL, setURL, Free
<1>2. ASSUME NEW u \in MaybeURL, NEW reset \in Resets, SetURLOffMain(u, reset) PROVE LoadedOK'
  BY <1>2 DEF IInv, SetURLOffMain, setURL
<1>3. ASSUME SetImage PROVE LoadedOK'
  BY <1>3 DEF IInv, SetImage
<1>4. ASSUME RemoveImage PROVE LoadedOK'
  BY <1>4 DEF IInv, RemoveImage
<1>5. ASSUME EnterPreloadState PROVE LoadedOK'
  BY <1>5 DEF IInv, EnterPreloadState, Free
<1>6. ASSUME ExitPreloadState PROVE LoadedOK'
  BY <1>6 DEF IInv, ExitPreloadState, Free
<1>7. ASSUME NEW hit \in BOOLEAN, DisplayWillStart(hit) PROVE LoadedOK'
  BY <1>7 DEF IInv, DisplayWillStart, Free
<1>8. ASSUME ReadState PROVE LoadedOK'
  BY <1>8 DEF IInv, ReadState, Free
<1>9. ASSUME LoadFileURL PROVE LoadedOK'
  BY <1>9 DEF IInv, LoadFileURL, Free
<1>10. ASSUME BeginLookup PROVE LoadedOK'
  BY <1>10 DEF IInv, BeginLookup, Free
<1>11. ASSUME BeginDownload PROVE LoadedOK'
  BY <1>11 DEF IInv, BeginDownload, Free
<1>12. ASSUME FinishCached PROVE LoadedOK'
  BY <1>12 DEF IInv, FinishCached, Free
<1>13. ASSUME CancelDownloadAndClearImage PROVE LoadedOK'
  BY <1>13 DEF IInv, CancelDownloadAndClearImage, Free
<1>14. ASSUME LoadFile PROVE LoadedOK'
  BY <1>14 DEF IInv, LoadFile
<1>15. ASSUME RunPreload PROVE LoadedOK'
  BY <1>15 DEF IInv, RunPreload, Free
<1>16. ASSUME NEW l \in DOMAIN lookups, CacheDropped(l) PROVE LoadedOK'
  BY <1>16 DEF IInv, CacheDropped, AnswerLookup
<1>17. ASSUME NEW l \in DOMAIN lookups, CacheMiss(l) PROVE LoadedOK'
  BY <1>17 DEF IInv, CacheMiss, AnswerLookup
<1>18. ASSUME NEW l \in DOMAIN lookups, CacheHit(l) PROVE LoadedOK'
  BY <1>18 DEF IInv, CacheHit, AnswerLookup
<1>19. ASSUME NEW d \in DOMAIN downloads, NEW loaded \in BOOLEAN, FinishDownload(d, loaded) PROVE LoadedOK'
  <2>1. CASE ~hasCache /\ reportsId
    <3>1. IsForeign(d) \/ downloadId = d
      BY <2>1 DEF IsForeign
    <3>2. downloadId = d => downloads[d].url = url
      BY DEF IInv, LogsOK, DownloadMatchesURL, Nil
    <3>3. url \in MaybeURL
      BY DEF IInv, ShownOK
    <3> QED
      BY <1>19, <2>1, <3>1, <3>2, <3>3 DEF IInv, FinishDownload, MaybeURL
  <2>2. CASE ~(~hasCache /\ reportsId)
    BY <1>19, <2>2 DEF IInv, FinishDownload
  <2> QED
    BY <2>1, <2>2
<1>20. ASSUME NEW d \in DOMAIN downloads, HandleProgress(d) PROVE LoadedOK'
  <2>1. CASE ~hasCache /\ reportsId
    <3>1. IsForeign(d) \/ downloadId = d
      BY <2>1 DEF IsForeign
    <3>2. downloadId = d => downloads[d].url = url
      BY DEF IInv, LogsOK, DownloadMatchesURL, Nil
    <3>3. url \in MaybeURL
      BY DEF IInv, ShownOK
    <3> QED
      BY <1>20, <2>1, <3>1, <3>2, <3>3 DEF IInv, HandleProgress, MaybeURL
  <2>2. CASE ~(~hasCache /\ reportsId)
    BY <1>20, <2>2 DEF IInv, HandleProgress
  <2> QED
    BY <2>1, <2>2
<1>21. ASSUME NEW b \in Blocks, StartDownload(b) PROVE LoadedOK'
  BY <1>21 DEF IInv, StartDownload
<1>22. ASSUME NEW b \in Blocks, StoreIdentifier(b) PROVE LoadedOK'
  BY <1>22 DEF IInv, StoreIdentifier
<1>23. CASE UNCHANGED vars
  BY <1>23 DEF IInv, vars
<1> QED
  BY <1>1, <1>2, <1>3, <1>4, <1>5, <1>6, <1>7, <1>8, <1>9, <1>10, <1>11,
     <1>12, <1>13, <1>14, <1>15, <1>16, <1>17, <1>18, <1>19, <1>20, <1>21,
     <1>22, <1>23, Zenon DEF Next, Clients, MainSteps, MainQueue,
     CacheAnswers, DownloadsEnd, BlockSteps

LEMMA NextIInv == IInv /\ [Next]_vars => IInv'
  BY FlagsStep, ShownStep, LogsStep, FramesStep, QueuesStep, BlocksMatchStep, MatchStep,
     LoadedStep DEF IInv

-----------------------------------------------------------------------------
(* The theorems.                                                           *)

\* The inductive invariant holds throughout (ASNetworkImageNode.mm).
THEOREM Invariance == Spec => []IInv
  BY InitIInv, NextIInv, PTL DEF Spec

\* The variables keep their types: identifiers and cache UUIDs are nil or of
\* something begun.
THEOREM TypeCorrect == Spec => []TypeOK
<1>1. IInv => TypeOK
  BY DEF IInv, FlagsOK, ShownOK, LogsOK, FramesOK, QueuesOK, TypeOK
<1> QED
  BY <1>1, Invariance, PTL

\* _downloadIdentifier is always of a download of _URL (lines 514-530, 556-566).
THEOREM IdentifierMatchesURL == Spec => []DownloadMatchesURL
<1>1. IInv => DownloadMatchesURL
  BY DEF IInv
<1> QED
  BY <1>1, Invariance, PTL

\* _imageLoaded never stands for the image of another URL (161-169, 600-640).
THEOREM LoadedImageIsCurrent == Spec => []LoadedIsCurrent
<1>1. IInv => LoadedIsCurrent
  BY DEF IInv, LoadedOK
<1> QED
  BY <1>1, Invariance, PTL

\* Late answers of downloads never bring the image of another URL (660-663).
THEOREM LateAnswersRejected == Spec => NoForeignImage
<1>1. IInv /\ [Next]_vars =>
        [reportsId /\ main.pc # "cached" /\ image' # image /\ image' \in URLs
           => image' = url']_vars
  BY NoForeignStep
<1> QED
  BY <1>1, Invariance, PTL DEF Spec, NoForeignImage
=============================================================================
