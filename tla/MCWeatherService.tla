-------------------------- MODULE MCWeatherService --------------------------
(* Instances of WeatherService for TLC. *)
EXTENDS WeatherService, TLC

\* No property tells one registrant from another.
Symmetry == Permutations(Registrant)
=============================================================================
