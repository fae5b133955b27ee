---------------------------- MODULE MCAliasedDevice ----------------------------
(* Two opens of the device that may race, and mappings of two pages.         *)
EXTENDS AliasedDevice, TLC

CONSTANTS f1, f2, m1, m2, v1, v2

MCFiles == {f1, f2}
MCMappings == {m1, m2}
MCVPages == {v1, v2}
===============================================================================
