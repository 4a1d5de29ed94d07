------------------------- MODULE MCUploadLifecycle -------------------------
(* Small instances of UploadLifecycle for TLC.                             *)
EXTENDS UploadLifecycle

CONSTANTS u1, u2, c1, c2, d1, d2

OneUploader == {u1}
TwoUploaders == {u1, u2}
OneCleaner == {c1}
TwoCleaners == {c1, c2}
TwoDeleters == {d1, d2}
=============================================================================
