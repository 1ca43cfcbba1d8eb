--------------------------- MODULE MCSkyFilters ----------------------------
(* Small instances of the Sky filter scheduler for TLC.                    *)
EXTENDS SkyFilters
=============================================================================
