----------------------------- MODULE MCSampler -----------------------------
(* TLC instances of Sampler. *)
EXTENDS Sampler

AllDrivers == {TyphonStats, RainStats, RqbitStats, QbitStats, TransmissionStats,
               RtorrentStats}

OnlyRtorrent == {RtorrentStats}
=============================================================================
