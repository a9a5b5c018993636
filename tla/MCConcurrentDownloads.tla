----------------------- MODULE MCConcurrentDownloads ------------------------
(* Small instances of ConcurrentDownloads for TLC. *)
EXTENDS ConcurrentDownloads, TLC

\* Two chunks, the last one shorter; a gap shows as a 0.
MCTwoChunks == {<<1, 1, 1>>}

\* The two runs are alike: which of them is which is not looked at.
OneRun(c, local) == <<fd[c], c \in connected, local>>
EitherWay ==
  <<{OneRun(Downloader, firstDn), OneRun(Downloader2, secondDn)},
    store, stray, part, nextIndex, out, delivered>>
=============================================================================
