-------------------------------- MODULE MCApi --------------------------------
(* A small instance of Api: the calls of each door that differ in one way   *)
(* from a plain one, over every objective on three solutions.               *)
EXTENDS Api

Plain == [minimize |-> "None", direction |-> "None", single |-> "None", many |-> <<>>,
          given |-> FALSE, bounds |-> "good"]
NoFlags == [k \in CliKeys |-> "absent"]
Both == [NoFlags EXCEPT !["func"] = "given", !["bounds"] = "given"]
Session(door, args, cached) ==
  [door |-> door, args |-> args, flags |-> NoFlags, json |-> NoFlags, wellFormed |-> TRUE,
   cached |-> cached]
Shell(flags, json, ok) ==
  [door |-> "cli", args |-> Plain, flags |-> flags, json |-> json, wellFormed |-> ok,
   cached |-> TRUE]

DirectionCalls ==
  { [Plain EXCEPT !.minimize = m, !.direction = d] :
      m \in {"None", "True", "False"}, d \in Directions \cup {"None", "bogus"} }
WarmCalls ==
  { [Plain EXCEPT !.single = s, !.many = g, !.given = TRUE, !.direction = d] :
      s \in {"None", "a"}, d \in Directions,
      g \in {<<>>, <<"a">>, <<"b">>, <<"b", "a">>, <<"b", "outside">>, <<"b", "b">>} }
MCValues == {-1, 0, 1}
\* Rounding takes "a" and "b" for the same.
MCKey(s) == IF s = "b" THEN "a" ELSE s
MCSessions ==
  { Session(door, args, c) : door \in {"givp", "estimator"}, c \in BOOLEAN,
      args \in DirectionCalls \cup WarmCalls
              \cup {[Plain EXCEPT !.bounds = b] : b \in {"length", "order"}} }
  \cup { Shell([Both EXCEPT !["direction"] = d], [NoFlags EXCEPT !["direction"] = j], TRUE) :
           d \in {"absent", "bad"} \cup Directions,
           j \in {"absent", "null", "bad"} \cup Directions }
  \cup { Shell([NoFlags EXCEPT ![k] = f], [Both EXCEPT ![k] = j], ok) :
           k \in CliKeys \ {"direction"}, f \in {"absent", "given", "bad"},
           j \in {"absent", "null", "given", "bad"}, ok \in BOOLEAN }
  \cup { Shell(Both, [NoFlags EXCEPT !["config"] = "other"], TRUE) }
==============================================================================
