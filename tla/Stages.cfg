CONSTANTS
  careful = careful
  loose = loose
  review = review
  foreign = foreign
  Plugins = {careful, loose, review, foreign}
  PluginVars <- MCPluginVars
  MaxTimes = 2
SPECIFICATION Spec
INVARIANTS
  OnlyResultsAreRefused
