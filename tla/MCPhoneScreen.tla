---------------------------- MODULE MCPhoneScreen ----------------------------
(* A street of two places for TLC and one more address, c, that is no      *)
(* job's.  Order 1 is collected at a and handed over at b, order 2 the     *)
(* other way round, order 3 like order 1; order 1 has the longer window    *)
(* and its bag spoils.                                                     *)
EXTENDS PhoneScreen

CONSTANTS a, b, c
MCWindow == [o \in Job |-> IF o = 1 THEN 2 ELSE 1]
MCFee == [o \in Job |-> 100]
MCSpoils == [o \in Job |-> IF o = 1 THEN 2 ELSE Never]
MCSpoilPct == [o \in Job |-> 70]
MCDoorHandling == [o \in Job |-> IF o = 3 THEN 2 ELSE 1]
MCPickup == [o \in Job |-> IF o = 2 THEN b ELSE a]
MCDropoff == [o \in Job |-> IF o = 2 THEN a ELSE b]
MCGap == [p \in {a, b} |-> [d \in {a, b, c} |-> IF p = d THEN 0 ELSE 2]]
==============================================================================
