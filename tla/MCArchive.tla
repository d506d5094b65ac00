------------------------------ MODULE MCArchive ------------------------------
EXTENDS MCConvert, Archive

ArchiveExtra == {3}

\* Short enough to be cut at every byte.
TinyVideo == Trak(1, "vide", "avc1", 10, <<>>,
  [NoTable EXCEPT !.stts = <<Run(2, 5)>>, !.stsz = <<1, 1>>, !.stsc = <<Chunks(1, 2)>>,
                  !.chunks = <<200>>])
TinyAudio == Trak(2, "soun", "opus", 10, <<>>,
  [NoTable EXCEPT !.stts = <<Run(1, 5)>>, !.stsz = <<1>>, !.stsc = <<Chunks(1, 1)>>,
                  !.chunks = <<202>>])
Tiny == Flat(<<TinyVideo, TinyAudio>>, 220)

ArchiveJobs == McJobs \cup Both(Tiny, NoMap)
=============================================================================
