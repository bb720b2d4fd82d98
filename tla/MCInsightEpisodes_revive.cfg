SPECIFICATION Spec
CONSTANTS
  e1 = e1
  e2 = e2
  Engines <- MCOne
  MaxEpisodes = 2
  Restarts = FALSE
INVARIANT HeadMirrorsEpisode
