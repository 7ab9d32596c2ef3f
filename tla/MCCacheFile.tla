------------------------------ MODULE MCCacheFile ------------------------------
(* The cachefile with a few updates and readers, all of them model values. *)
EXTENDS CacheFile, TLC

CONSTANTS w1, w2, r1, r2

MCWriters == {w1, w2}
MCReaders == {r1, r2}

(* Databases of every length. *)
MCSizes == [Databases -> Part]

(* Databases of two parts. *)
TwoParts == {[d \in Databases |-> 2]}

================================================================================
