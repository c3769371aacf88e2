SPECIFICATION ServerSpec
CONSTANTS
    Clients = {"c1", "c2"}
    Tokens = {"t1", "t2", "t3"}
    Files <- SomeFiles
    Overrides <- SomeOverrides
    Asked <- SomeTools
    Lifetime = 2
    MaxNow = 3
INVARIANTS ServedAreGranted RotationKeepsClients PublicIsShareable
