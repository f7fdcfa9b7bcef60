SPECIFICATION SmoothSpec
CONSTANTS
    Clients = {h1, h2, h3}
    Workers = {w1, w2}
    NoWorker = NoWorker
    Broken = Broken
    NoClient = NoClient
    MaxAttempts = 3
PROPERTY
    EveryoneConnects
