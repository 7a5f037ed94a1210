SPECIFICATION RestartSpec
CONSTANTS
  Code = {env, import}
  NoCode = NoCode
PROPERTIES
  MidRestartChangeSurvives
