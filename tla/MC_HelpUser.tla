---------------------------- MODULE MC_HelpUser ----------------------------
(* Model values for HelpUser: two VMs, one owner guid and the help user,  *)
(* one host, every VM created on day 0 and the clock fixed at day 0.      *)
EXTENDS HelpUser, TLC

CONSTANTS v1, v2, g1, help, h1

MCVmIds == {v1, v2}
MCGuids == {g1, help}
MCHosts == {h1}
MCCreatedDays == {0}
MCAllCommands == {"addhelpuser", "removehelpuser"}
MCAddCommand == {"addhelpuser"}

=============================================================================
