------------------------------- MODULE MCFiles ------------------------------
(***************************************************************************)
(* Files for TLC: the values of its larger constants.                      *)
(***************************************************************************)
EXTENDS Files, TLC

\* Backup
MCLists == {{}, {"folder", "gdrive"}, {"smb", "onedrive"}}

\* Settings: the files the daemon may find, the trees of a backup, the changes asked for; written with the
\* definitions of Settings that are of no particular files
Plain == INSTANCE Settings WITH
  Files <- {}, Backups <- {}, Patches <- {}, pending <- settings_pending
Old == [Plain!Default EXCEPT !.ver = 6, !.max = 550, !.tmax = 0, !.tmin = 0, !.drop = 0, !.igniter = 1200,
          !.selected = "retired", !.offered = {},
          !.things = [x \in Plain!Things |-> IF x \in {"points", "cold start"} THEN "mine" ELSE "old"],
          !.rules = [id \in Plain!RuleIds |-> [words |-> IF id = "probe-target" THEN "mine" ELSE "old",
                                         guard |-> FALSE]]]
MCFound == {Plain!NoFile, Plain!Junk, Plain!Default, Old, [Old EXCEPT !.units = "C", !.max = 288],
            [Plain!Default EXCEPT !.auger = 600, !.igniter = 900, !.drop = 80],
            [Plain!Default EXCEPT !.max = 900, !.tmax = 700],
            [Plain!Default EXCEPT !.ver = 16, !.units = "C", !.max = 300, !.tmax = 250, !.tmin = 90]}
MCBackups == {[Plain!Default EXCEPT !.max = 600, !.auger = 90], [Plain!Default EXCEPT !.max = 343, !.tmax = 290, !.drop = 0]}
MCPatches == {{<<"units", "C">>}, {<<"units", "F">>}, {<<"max", 343>>, <<"tmax", 342>>},
              {<<"units", "C">>, <<"max", 340>>, <<"tmax", 280>>, <<"tmin", 110>>},
              {<<"tmin", 170>>, <<"tmax", 180>>}, {<<"auger", 300>>}, {<<"drop", 28>>}}
HandFiles == MCFound \cup {[Plain!Default EXCEPT !.cycle = 3, !.auger = 600]}

\* Panel: what the grill may show
Shown(m, what) == [mode |-> m, has |-> what]
MCStatuses ==
  {Shown("Stop", {"paired"}), Shown("Monitor", {"timer"}), Shown("Hold", {"hopper", "food", "target"}),
   Shown("Smoke", {"recipe"})}
=============================================================================
