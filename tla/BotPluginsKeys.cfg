SPECIFICATION Spec
CONSTANTS
  h1 = h1
  h2 = h2
  p1 = p1
  p2 = p2
  p1Upper = p1Upper
  llm = llm
  other = other
  noPlugin = noPlugin
  Handlers <- MCHandlers
  Plugins <- MCPlugins
  Caps <- MCCaps
  KnownCaps <- MCKnownCaps
  Keys <- MCKeys
  EnvKey <- MCEnvKey
  ConfigKeys <- MCConfigKeys
  ConfigKey <- MCConfigKey
  Provides <- MCProvides
  Primaries <- MCPrimaries
  NoPlugin = noPlugin
  NoOverrides = NoOverrides
  NoBot = NoBot
  Kinds <- MCPluginsOnly
  MaxRequests = 3
SYMMETRY MCSymmetry
CHECK_DEADLOCK FALSE
INVARIANT RemainingPluginsKeepTheirKeys
