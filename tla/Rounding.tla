------------------------------ MODULE Rounding ------------------------------
(***************************************************************************)
(* The arithmetic of a time entry: rounding_service.round_duration and     *)
(* time_entry_service._compute_billable_amount, over integers.             *)
(*                                                                         *)
(* The code divides floats.  raw/interval is exact or at least 1/interval  *)
(* away from a half, so floor(x + 0.5) is the integer quotient below.  For *)
(* amounts, (duration/3600)*rate may miss an exact half by a rounding      *)
(* error; the model takes Python's round, half to even, of the exact value.*)
(***************************************************************************)
EXTENDS Integers

CONSTANTS
    Hour,   \* 3600, scaled down by TLC's instances
    None    \* NULL

ASSUME HourAssumption == Hour \in Nat \ {0}

Modes == {"none", "nearest", "up", "down"}

\* A rounding rule; interval is in seconds, 0 stands for NULL.
Rule == [mode : Modes, interval : Nat]

Round(rule, raw) ==
    LET i == rule.interval IN
    IF rule.mode = "none" \/ i = 0 THEN raw
    ELSE IF rule.mode = "nearest" THEN ((2 * raw + i) \div (2 * i)) * i
    ELSE IF rule.mode = "up" THEN ((raw + i - 1) \div i) * i
    ELSE (raw \div i) * i

HalfEven(n, d) ==
    LET q    == n \div d
        rest == 2 * (n % d)
    IN  IF rest > d \/ (rest = d /\ q % 2 = 1) THEN q + 1 ELSE q

Amount(duration, rate) ==
    IF rate = None THEN None ELSE HalfEven(duration * rate, Hour)
=============================================================================
