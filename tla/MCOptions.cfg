CONSTANTS
  apiKey = apiKey
  webhookSecret = webhookSecret
  x = x
  Plain = {}
  Required = {apiKey}
  Optional = {webhookSecret}
  Value = {x, y}
  Defaults <- configured
  Blank = Blank
  None = None
  Thread = {a, b}
  Savers = {a, b}
  Readers = {a, b}
SPECIFICATION Spec
SYMMETRY Symmetry
INVARIANTS ServedInForce ServedWasSaved
CHECK_DEADLOCK FALSE
