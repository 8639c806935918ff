-------------------------- MODULE MCWeatherPipeline ---------------------------
(* Two forecasts of one place; the second one has an hour out of range.       *)
EXTENDS WeatherPipeline, TLC

CONSTANTS c1, c2

Good(obs) == [obs |-> obs, ok |-> TRUE]
Bad(obs) == [obs |-> obs, ok |-> FALSE]

MCPlace == [c \in {c1, c2} |-> 1]
MCHours == (c1 :> {Good(1), Good(2)}) @@ (c2 :> {Good(1), Bad(2)})
=============================================================================
