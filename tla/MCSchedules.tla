------------------------------ MODULE MCSchedules ------------------------------
(***************************************************************************)
(* Days of four minutes and weeks of three days; tables of two entries     *)
(* that share a relay, cross midnight, follow the sun, repeat, conflict,   *)
(* or are not valid.                                                       *)
(***************************************************************************)
EXTENDS Schedules

TwoEntries == {1, 2}
TwoRelays  == {1, 2}

AllSuns == {[kind |-> "transition", rise |-> 1, set |-> 3],
            [kind |-> "up", rise |-> 0, set |-> 0], [kind |-> "down", rise |-> 0, set |-> 0]}
OneSun  == {[kind |-> "transition", rise |-> 1, set |-> 3]}

At(m)      == [kind |-> "clock", at |-> m]
Sunrise(m) == [kind |-> "sunrise", at |-> m]
Sunset(m)  == [kind |-> "sunset", at |-> m]
Every(m)   == [kind |-> "minutes", at |-> m]
Bad        == [kind |-> "bad", at |-> 0]

Clock(r, on, off, days)  == [relay |-> r, mode |-> "clock", on |-> on, off |-> off, days |-> days]
Repeat(r, on, off, days) == [relay |-> r, mode |-> "repeat", on |-> Every(on), off |-> Every(off), days |-> days]
Unused                   == Clock(0, Bad, Bad, {})

\* Day 0 of 3 stands for Friday.
Evening     == Clock(1, At(1), At(3), {0, 1})
FridayNight == Clock(1, At(3), At(2), {0})
AnchorLight == Clock(2, Sunset(1), Sunrise(-1), {0, 1, 2})
Daylight    == Clock(1, Sunrise(0), Sunset(0), {0, 1})
Pump        == Repeat(2, 1, 2, {1, 2})
Clash       == Repeat(1, 1, 2, {1, 2})
Broken      == Clock(2, Bad, At(1), {0})
NoSuchRelay == Clock(3, At(1), At(3), {0})

Pairs == {<<Evening, AnchorLight>>, <<FridayNight, Pump>>, <<AnchorLight, FridayNight>>,
          <<Daylight, Clash>>, <<Evening, Broken>>, <<NoSuchRelay, Evening>>, <<Unused, Unused>>}
=============================================================================
