---------------------------- MODULE MCConfigStore ----------------------------
(* Values of the constants of ConfigStore for TLC.                          *)
EXTENDS ConfigStoreSerial, TLC

CONSTANTS s1, s2, s3, r1, r2, v1, v2, x, y

Srv(id, b) == [id |-> id, body |-> b]

\* What growslice gives to the short lists of these runs: powers of two.
MCCapacities == {0, 1, 2, 4, 8}

\* config.Default(): no server, no rule.
MCDefault == [servers |-> <<>>, rules |-> <<>>, setting |-> x]

\* A file with two servers and two rules.
TwoAndTwo == [servers |-> <<Srv(s1, v1), Srv(s2, v1)>>,
              rules   |-> <<Srv(r1, v1), Srv(r2, v1)>>,
              setting |-> x]

\* A file with two rules and no server.
NoneAndTwo == [TwoAndTwo EXCEPT !.servers = <<>>]

\* A file with two servers and no rule.
TwoAndNone == [TwoAndTwo EXCEPT !.rules = <<>>]

RuleBackups   == {NoneAndTwo}
ServerBackups == {TwoAndNone}

HandlerSymmetry == Permutations(Handlers)

\* The identity of an array does not matter, only who shares it, and nothing
\* reads an array that no slice points to: states that differ in nothing else
\* are one state.  An array is known by the slices that point to it.
Pointers(a) ==
    {<<"store", f>> : f \in {g \in {"servers", "rules"} : cfg[g].arr = a}}
      \cup {<<h, f>> \in Handlers \X {"servers", "rules"} :
               Busy(h) /\ req[h].cfg[f].arr = a}

Anonymous(c) == <<c.servers.len, c.rules.len, c.setting>>

SharingView ==
    <<up, metrics, disk, unsaved, Anonymous(cfg),
      {<<Pointers(a), heap[a]>> : a \in Live},
      [h \in Handlers |->
         IF Busy(h) THEN [req[h] EXCEPT !.cfg = Anonymous(@)] ELSE Idle]>>
==============================================================================
