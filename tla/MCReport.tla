------------------------------ MODULE MCReport -------------------------------
(* What a report comes from, for TLC: the commands run, serve and find, the  *)
(* attribution of what was recorded, and the search for numbers.  scene says *)
(* which of them acts.                                                       *)
EXTENDS Command, MCAttribution, Numbers

VARIABLE scene

MCOptions == [name : {"run", "serve", "find"}, html : BOOLEAN, keep : BOOLEAN, gate : BOOLEAN,
              token : {"terminal", "path", "private"}, there : BOOLEAN]
\* The options that a command does not have are left out.
MCCommands ==
  {c \in MCOptions :
     /\ c.name # "run" => ~c.keep /\ ~c.gate
     /\ c.name # "serve" => c.token = "terminal"
     /\ c.token # "path" => ~c.there}

\* Numbers of one digit and of four, in several styles, and values that mean some of them.
Num(sign, int, group, point, frac) == [sign |-> sign, int |-> int, group |-> group, point |-> point, frac |-> frac]
Plain(int) == Num("", int, "", ".", <<>>)
N1234 == <<"1", "2", "3", "4">>
MCNumerals ==
  {Plain(<<"4">>), Plain(<<"2", "3", "4">>), Plain(N1234), Num("-", <<"4">>, "", ".", <<>>),
   Num("~", <<"4">>, "", ",", <<"5", "0">>), Num("", <<"4">>, "", ".", <<"5">>), Num("", <<"4">>, "", ".", <<"5", "0", "0">>),
   Num("", N1234, ".", ",", <<>>), Num("", N1234, ",", ".", <<"5">>), Num("", N1234, " ", ",", <<>>)}
MCGlues == {<<>>, <<" ">>, <<",">>, <<",", " ">>, <<"-">>, <<"x">>, <<"e", "-">>, <<"e", "+">>, <<"$">>}
MCTails == {<<>>, <<" ", "kr">>, <<",", "-">>}

Value(before, n, after) == [before |-> before, n |-> n, after |-> after]
MCValues ==
  {Value(<<>>, Plain(<<"4">>), <<>>), Value(<<>>, Num("", <<"4">>, "", ",", <<"5">>), <<>>),
   Value(<<"$">>, Plain(N1234), <<>>), Value(<<"kr", " ">>, Num("-", <<"4">>, "", ".", <<>>), <<>>),
   Value(<<>>, Num("-", <<"4">>, "", ".", <<"5">>), <<" ", "kr">>), Value(<<>>, Num("", N1234, ",", ".", <<>>), <<>>),
   Value(<<>>, Num("", N1234, "'", ".", <<"5">>), <<>>), Value(<<>>, Num("", <<"0", "4">>, "", ".", <<"5", "0">>), <<>>),
   Value(<<>>, Num("", <<"1">>, "", ".", <<"2", "3", "4">>), <<"$">>)}

\* One of S where another scene acts.
OneOf(S) == CHOOSE x \in S : TRUE
SceneInit ==
  /\ scene \in {"command", "report", "numbers"}
  /\ cmd \in (IF scene = "command" THEN Commands ELSE {OneOf(Commands)})
  /\ plan \in (IF scene = "report" THEN Plans ELSE {OneOf(Plans)})
  /\ value \in (IF scene = "numbers" THEN Values ELSE {OneOf(Values)})
  /\ InitCommand /\ Init /\ InitNumbers
SceneNext ==
  \/ scene = "command" /\ NextCommand /\ UNCHANGED <<scene, vars, numberVars>>
  \/ scene = "report" /\ Next /\ UNCHANGED <<scene, commandVars, numberVars>>
  \/ scene = "numbers" /\ NextNumbers /\ UNCHANGED <<scene, commandVars, vars>>
SceneSpec == SceneInit /\ [][SceneNext]_<<scene, commandVars, vars, numberVars>>
=============================================================================
