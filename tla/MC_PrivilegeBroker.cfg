\* Two clients and one scan thread with one device; the Bluetooth daemon is
\* the broker's alone, MC_BluetoothService.cfg gives it competing callers.
SPECIFICATION Spec
CONSTANTS
  Clients = {c1, c2}
  Broker = broker
  Callers = {broker}
  ScanThreads = {t1}
  MaxDevices = 1
  Garbage = Garbage
  NoOne = NoOne
  NoCall = NoCall
  Requests <- MCRequests
  Full <- MCFull
INVARIANTS TruthfulResult NothingLeftOver
PROPERTIES CallReturns
