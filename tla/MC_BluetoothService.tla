------------------------ MODULE MC_BluetoothService ------------------------
EXTENDS BluetoothService
=============================================================================
