---------------------------- MODULE VideoFormats ----------------------------
(***************************************************************************)
(* What a video source offers, as pwf_video_enum.c reads it: EnumFormat    *)
(* objects, each with a pixel format, a size and frame rates, the last two *)
(* as SPA choices.                                                         *)
(*                                                                         *)
(* A property is [choice, vals]; one that is missing or of the wrong type  *)
(* has no values.  A rectangle is a number, 0 if its width or height is 0. *)
(***************************************************************************)
EXTENDS Integers, Sequences, SequencesExt

CONSTANTS
  NULL,             \* the pixel format of an object that names none
  MaxRates          \* the capacity of struct pwf_video_format_info's fps[]

ASSUME RatesAssumption == MaxRates \in Nat \ {0}

Ranged(prop) == prop.choice \in {"Range", "Step"} /\ Len(prop.vals) >= 3

\* pwf_video_insert_framerate(): before the first rate that is not faster; the
\* slowest one falls out of a full list.
InsertFramerate(fps, rate) ==
  LET pos == CHOOSE i \in 1..Len(fps) + 1 :
               /\ i > Len(fps) \/ fps[i] <= rate
               /\ \A j \in 1..i - 1 : fps[j] > rate
  IN  IF rate \in ToSet(fps) \/ pos > MaxRates
        THEN fps
        ELSE SubSeq(InsertAt(fps, pos, rate), 1, IF Len(fps) < MaxRates
                                                   THEN Len(fps) + 1 ELSE MaxRates)

\* The values that name a rate: not the default of an Enum or of a Range.
Nameable(prop) ==
  CASE prop.choice = "None" /\ prop.vals # <<>> -> <<prop.vals[1]>>
    [] prop.choice = "Enum"                     -> SubSeq(prop.vals, 2, Len(prop.vals))
    [] Ranged(prop)                             -> SubSeq(prop.vals, 2, 3)
    [] OTHER                                    -> <<>>

\* Whole frames per second; 0 for a rate that cannot be told.
Fps(frac) == IF frac[2] = 0 THEN 0 ELSE frac[1] \div frac[2]

AddRate(fps, frac) ==
  IF Fps(frac) > 0 THEN InsertFramerate(fps, Fps(frac)) ELSE fps

ParseFramerates(prop) == FoldLeft(AddRate, <<>>, Nameable(prop))

Low(prop)  == IF Ranged(prop) THEN prop.vals[2] ELSE prop.vals[1]
High(prop) == IF Ranged(prop) THEN prop.vals[3] ELSE prop.vals[1]

\* Whether pwf_video_enum_on_param() counts the object, and as what.
Parses(obj) == obj.pixel # NULL /\ obj.size.vals # <<>> /\ Low(obj.size) > 0
Info(obj) ==
  [pixel |-> obj.pixel, size |-> Low(obj.size), size_max |-> High(obj.size),
   fps |-> ParseFramerates(obj.rates)]

\* "Highest first; a device offering more keeps its fastest rates": each once,
\* and one that is left out is slower than all of a full list.
FastestOf(fps, rates) ==
  /\ Len(fps) <= MaxRates
  /\ ToSet(fps) \subseteq rates
  /\ \A i, j \in DOMAIN fps : i < j => fps[i] > fps[j]
  /\ \A r \in rates \ ToSet(fps) :
       Len(fps) = MaxRates /\ \A i \in DOMAIN fps : r < fps[i]

Rates(prop) == {Fps(Nameable(prop)[k]) : k \in DOMAIN Nameable(prop)} \ {0}

IsFastest(fps, prop) == FastestOf(fps, Rates(prop))
=============================================================================
