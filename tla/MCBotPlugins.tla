---------------------------- MODULE MCBotPlugins ----------------------------
(* A small instance of BotPlugins: three plugins that share a capability,   *)
(* two of them ids that differ in letter case only, one known capability    *)
(* with its credential and one capability nobody knows.                     *)
EXTENDS BotPlugins, TLC

CONSTANTS h1, h2, p1, p2, p1Upper, llm, other, noPlugin

MCHandlers == {h1, h2}
MCPlugins == {p1, p2, p1Upper}
MCSymmetry == Permutations(MCHandlers) \cup Permutations({p1, p1Upper})
MCCaps == {llm, other}
MCKnownCaps == {llm}
MCKeys == {"LLM_KEY"}
MCEnvKey == [c \in {llm} |-> "LLM_KEY"]
MCConfigKeys == {"P1_CONFIG", "P2_CONFIG"}
MCConfigKey ==
  [p \in MCPlugins |-> IF p = p2 THEN "P2_CONFIG" ELSE "P1_CONFIG"]
MCProvides == [p \in MCPlugins |-> {llm}]
MCPrimaries == {[c \in MCCaps |-> IF c = llm THEN p2 ELSE noPlugin]}
MCKinds ==
  {"install", "market", "uninstall", "toggle", "activate", "setup", "patch",
   "destroy"}
MCInstallOnly == {"install"}
MCPluginsOnly == {"market", "uninstall"}
=============================================================================
