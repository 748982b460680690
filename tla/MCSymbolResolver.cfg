SPECIFICATION FairSpec
CONSTANTS
  main = main
  lib = lib
  p = p
  g = g
  F = F
  T = T
  kMain = kMain
  S = S
  f = f
  h = h
  kLib = kLib
  np = np
  ng = ng
  nF = nF
  nT = nT
  nk = nk
  nS = nS
  nf = nf
  nh = nh
  nx = nx
  None = None
  Main = main
  Modules <- MCModules
  Sym <- MCSym
  Names <- MCNames
  Programs <- MCPrograms
INVARIANTS
  MarksMatchCalls
  SettlesWhatItReaches
  RefusesOnlyCycles
PROPERTIES
  ImplementsOrder
  Terminates
