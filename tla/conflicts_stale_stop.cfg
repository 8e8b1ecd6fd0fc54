CONSTANTS
  net = net
  nfs = nfs
  netdevs = netdevs
  BoolSyms = {net, nfs}
  OtherSyms = {netdevs}
  Prefixes <- MCPrefixes
  MaxRows = 2
  Soft = {s, t}
  MaxDiagnoses = 2
SPECIFICATION Spec
CHECK_DEADLOCK FALSE
INVARIANTS
  CanceledOnRequest
