------------------------------ MODULE MCConsole ------------------------------
(* Instance of Console for TLC.  What is entered for the first session:     *)
(* every text of up to four fields, the last with slashes or without, every *)
(* choice of fields in the dialog, every selector of up to three characters.*)
EXTENDS Console, TLC

Fields ==
  {Empty, <<"spawn">>, <<"list">>, <<"local">>, <<"usb">>, <<"remote">>, <<"x">>,
   <<"h", ":">>}
LastFields == Fields \cup {<<"x", "/">>, <<"/", "x">>, <<"/", "x", "/", "1">>}

Selectors == UNION {[1 .. n -> {"0", "1", "5", "6", "9", "x"}] : n \in 0 .. 3}

Typed(text) == [kind |-> "text", text |-> text]
Chosen(action, transport, device, target) ==
  [kind |-> "fields", action |-> action, transport |-> transport,
   device |-> device, target |-> target]
And(head, field) == head \o <<"/">> \o field

MCFirstEntries ==
  {Typed(a) : a \in Fields}
    \cup {Typed(And(a, t)) : a, t \in Fields}
    \cup {Typed(And(And(a, t), d)) : a, t, d \in Fields}
    \cup {Typed(And(And(And(a, t), d), g)) : a, t, d \in Fields, g \in LastFields}
    \cup {Typed(<<"attach", "/", "usb", "/", "/">> \o s) : s \in Selectors}
    \cup {Chosen(a, t, d, g) : a, t \in Fields, d, g \in LastFields}

MCEntries == {Typed(<<"spawn", "/", "usb", "/", "/", "x">>)}

\* The classes are alike.
ClassSymmetry == Permutations(Classes)
=============================================================================
