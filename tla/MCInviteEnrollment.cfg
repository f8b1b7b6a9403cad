SPECIFICATION FairSpec
CONSTANTS
    A = A
    B = B
    keyA = keyA
    keyX = keyX
    keyB = keyB
    a1 = a1
    a2 = a2
    b1 = b1
    ag = ag
    h1 = h1
    h2 = h2
    Requests = {a1, a2, b1}
    InstallOf <- MCInstallOf
    DeviceOf <- MCDeviceOf
    ByGrant = {}
    Resent = {b1}
    Installs = {A, B}
    Devices = {keyA, keyX, keyB}
    NoRequest = NoRequest
    Handlers = {h1, h2}
    MaxReleases = 0
    MaxDeaths = 1
INVARIANTS SingleUse
PROPERTIES ReservationCompletes
