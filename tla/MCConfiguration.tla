-------------------------- MODULE MCConfiguration --------------------------
(***************************************************************************)
(* Configuration with a property of each kind, an interval on either side  *)
(* of its limit, and some texts that have another form.                    *)
(***************************************************************************)
EXTENDS Configuration, TLC

MCDecimal ==
  [n \in {-1, 0, 1, 2, 7, 8, 16, 49, 50, 128, 220, 231, 232, 255, 263, 999, 1000, 1500, 9600,
          10000, 115200} |-> ToString(n)]

MCTokens ==
  {":", ";", "nul", "COM1", "COM2", "EVEN", "PORT", "FLOW"} \union KeySet
    \union UNION {Words[key] : key \in DOMAIN Words}
    \union {MCDecimal[n] : n \in DOMAIN MCDecimal}

MCLower == [PORT |-> "port", FLOW |-> "flow"]

MCPairs ==
  {<<"PORT", "COM1">>, <<"data", "263">>, <<"FLOW", "rtscts">>,
   <<"timeout", "49">>, <<"timeout", "50">>, <<"retry", "-1">>}

MCOtherTexts ==
  {<<"port", ";", "baund", ":", "9600">>,
   <<"parity", ":", "EVEN", ";", "flow">>,
   <<"data", ":", "7", ";", "stop", ":", "1", "2", "1", "2">>}

MCGarbage == {<<"0">>}

MCFound == [port |-> {<<"COM2">>}, baund |-> {9600}]

=============================================================================
