----------------------------- MODULE FileMarkers -----------------------------
(* What a reader of a file or directory may find where there is no data: the  *)
(* saves and the player profiles are kept in directories, written one file    *)
(* operation at a time.                                                       *)
CONSTANTS None,     \* no such file or directory
          Broken    \* one that cannot be read, or is there in part
=============================================================================
