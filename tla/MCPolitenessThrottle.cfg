SPECIFICATION Spec
CONSTANTS
  A = A
  B = B
  C = C
  a1 = a1
  a2 = a2
  b1 = b1
  c1 = c1
  ta = ta
  tb = tb
  Nobody = Nobody
  Urls = {a1, a2, b1, c1}
  Hosts = {A, B, C}
  HostOf <- HostOfUrl
  Tasks = {ta, tb}
  Asks <- EndpointOf
  MinGap = 1
  Cap = 2
  Delays = {2, 3}
  MaxHops = 2
PROPERTIES
  RememberedOnTheServer
