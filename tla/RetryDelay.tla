----------------------------- MODULE RetryDelay -----------------------------
(***************************************************************************)
(* retryx.Delay (retryx/retryx.go) with its two number systems: durations  *)
(* are Width-bit integers, the computation is in floating point with       *)
(* Mantissa bits, infinity and NaN.  A float is a natural number of        *)
(* 1/Unit nanoseconds.  Converting a float that no duration equals is      *)
(* left open by Go: amd64 and arm64 differ.                                *)
(***************************************************************************)
EXTENDS Integers

CONSTANTS
    Width,     \* of time.Duration without its sign (63 in the code)
    Mantissa,  \* of float64 (53 in the code)
    Unit,      \* floats per nanosecond
    Inf,       \* the float above all others
    Refused    \* the call returned an error

ASSUME FloatAssumption ==
    /\ Width \in Nat /\ Mantissa \in 1 .. Width /\ Unit \in Nat \ {0}
    /\ Inf > 2 ^ (Width + 1) * Unit

MaxDuration == 2 ^ Width - 1
MinDuration == -(2 ^ Width)
NaN == -1

\* The nearest float.
Round(x) ==
    LET drop == CHOOSE k \in 0 .. 30 : x < 2 ^ (Mantissa + k)
                                       /\ \A j \in 0 .. (k - 1) : x >= 2 ^ (Mantissa + j)
    IN IF drop = 0 THEN x ELSE ((x + 2 ^ (drop - 1)) \div 2 ^ drop) * 2 ^ drop

Float(d) == Round(d * Unit)

\* math.Pow, as a fraction; a power above the largest float is infinite.
Power(factor, n) ==
    LET num == factor[1] ^ n
        den == factor[2] ^ n
    IN IF num > Inf * den THEN <<Inf, 1>> ELSE <<num, den>>

Times(x, ratio) ==
    IF x = NaN \/ (ratio[1] = Inf /\ x = 0) \/ (x = Inf /\ ratio[1] = 0) THEN NaN
    ELSE IF x = Inf \/ ratio[1] = Inf \/ x * ratio[1] > Inf * ratio[2] THEN Inf
    ELSE Round((x * ratio[1]) \div ratio[2])

\* time.Duration(f)
Convert(f) ==
    IF f = NaN THEN {0, MinDuration}
    ELSE IF f >= 2 ^ Width * Unit THEN {MaxDuration, MinDuration} ELSE {f \div Unit}

Bad(cfg, attempt, sample) ==
    \/ cfg.base < 0 \/ cfg.max < 0 \/ cfg.factor[1] <= 0
    \/ cfg.jitter < 0 \/ cfg.jitter > 4 \/ attempt < 0
    \/ cfg.jitter > 0 /\ (sample < 0 \/ sample > 4)

\* 1 - jitter + 2 * jitter * sample; jitter and sample are in quarters.
Jittered(x, cfg, sample) ==
    IF cfg.jitter = 0 THEN x
    ELSE Times(x, <<16 - 4 * cfg.jitter + 2 * cfg.jitter * sample, 16>>)

Capped(x, cfg) == IF cfg.max > 0 /\ x > Float(cfg.max) THEN Float(cfg.max) ELSE x

\* Mutant: the delay is capped before the jitter is applied.
FloatDelayCapFirst(cfg, attempt, sample) ==
    Jittered(Capped(Times(Float(cfg.base), Power(cfg.factor, attempt)), cfg), cfg, sample)

FloatDelay(cfg, attempt, sample) ==
    Capped(Jittered(Times(Float(cfg.base), Power(cfg.factor, attempt)), cfg, sample), cfg)

\* The durations that Delay may return.
Delay(cfg, attempt, sample) ==
    IF Bad(cfg, attempt, sample) THEN {Refused}
    ELSE IF FloatDelay(cfg, attempt, sample) > Float(MaxDuration) THEN {MaxDuration}
    ELSE Convert(FloatDelay(cfg, attempt, sample))

----------------------------------------------------------------------------
\* The two floats that slip through: NaN passes every comparison, and 2^Width is
\* not above float64(MaxInt64), which is 2^Width too.
SlipsThrough(cfg, attempt, sample) ==
    FloatDelay(cfg, attempt, sample) \in {NaN, Float(MaxDuration)}

\* The documented delay: base * factor^attempt, changed by at most the jitter, and
\* never above MaxDelay.  Rounding may add one part in 2^(Mantissa - 1).
DelayAsDocumented(cfg, attempt, sample, delays) ==
    ~Bad(cfg, attempt, sample) /\ ~SlipsThrough(cfg, attempt, sample) =>
       LET limit == IF cfg.max = 0 THEN MaxDuration ELSE Float(cfg.max) \div Unit
           num == cfg.base * cfg.factor[1] ^ attempt
           den == 4 * cfg.factor[2] ^ attempt
           high == (num * (4 + cfg.jitter)) \div den
           low == (num * (4 - cfg.jitter)) \div den
           slack(x) == 1 + x \div 2 ^ (Mantissa - 1)
       IN \A d \in delays :
             /\ 0 <= d /\ d <= limit
             /\ d <= high + slack(high)
             /\ d >= IF low < limit THEN low - slack(low) ELSE limit - slack(limit)
=============================================================================
