----------------------------- MODULE MCSolutions -----------------------------
(***************************************************************************)
(* The problems whose solutions the run looks at.                          *)
(***************************************************************************)
EXTENDS MCSolver, Solutions

With(inputs, essential, noobsoletes) ==
  {[essential |-> essential, noobsoletes |-> noobsoletes] @@ i : i \in inputs}

\* Those the search gives up rules for.
GivenUp == {i \in PolicyInputs : i.disablerules /\ i.updatemap = {}}

EssentialInputs == {i \in GivenUp : Cardinality(DOMAIN i.rules) = 9}

\* The job for 2 leaves no room for 3 or its update 4, and 5 is not installable.
ReplacedInput ==
  WithInstalled(Plain(<<Rpm(<<-5>>), Rpm(<<-3, -2>>), Rpm(<<-4, -2>>),
                        Feature(<<3, 4, 5>>), Update(<<3, 4>>), Job(1, <<2>>)>>, 1), <<3>>, {})

SolutionInputs ==
  With(GivenUp, {}, {}) \cup With(EssentialInputs, 1..6, {4, 5})
    \cup With(EssentialInputs, 1..9, {5})
    \cup With({ReplacedInput}, {}, {4, 5})
=============================================================================
